---- MODULE Spec2Model ----
(***************************************************************************)
(* Deebot-4-Home-Assistant: the controller life cycle (async_setup_entry,  *)
(* DeebotController.initialize / teardown), the registration of entities   *)
(* per capability, the entities' event-bus subscriptions, the config flow  *)
(* and the device diagnostics.                                             *)
(*                                                                         *)
(* The vendor client library (ApiClient, MqttClient, Device, the event     *)
(* bus) and the Home Assistant framework are external: a call into them is *)
(* a step whose outcome (a return, or one of the exceptions the code       *)
(* distinguishes) is chosen nondeterministically.  Python objects are      *)
(* records; an attribute read on an object whose class never assigns that  *)
(* attribute raises AttributeError, as in Python.                          *)
(***************************************************************************)
EXTENDS Integers, Sequences, FiniteSets, TLC

\* ------------------------------------------------------------------ bounds
\* Longest device list the cloud API returns.
MaxApiLen == 2
\* Longest device list and longest description tuple that
\* register_platform_add_entities is applied to on its own.
MaxRegDevices == 2
MaxRegDescriptions == 2
\* Most device events emitted in one run of the entity specification.
MaxEvents == 3
\* Most forms submitted in one config flow.
MaxSubmits == 3

\* initialize and teardown calls made on one controller
MaxCalls == 2

\* --------------------------------------------------------- python helpers
\* dict.get(key, default)
Get(m, k, d) == IF k \in DOMAIN m THEN m[k] ELSE d

\* {**a, **b}
Merge(a, b) == [k \in (DOMAIN a) \cup (DOMAIN b) |-> IF k \in DOMAIN b THEN b[k] ELSE a[k]]

Range(s) == {s[i] : i \in 1..Len(s)}

EmptyMap == [k \in {} |-> k]

\* Injective sequences over S of length at most n.
InjSeqs(S, n) == {s \in UNION {[1..k -> S] : k \in 0..n} : \A i, j \in 1..Len(s) : i # j => s[i] # s[j]}

\* ------------------------------------------------------------- constants
DOMAIN_KEY == "deebot"

CONF_DEVICES == "devices"

CONF_USERNAME == "username"

CONF_COUNTRY == "country"

CONF_CONTINENT == "continent"

PLATFORMS == <<"binary_sensor", "button", "image", "number", "select", "sensor", "switch", "vacuum">>

EntryIds == {"e1", "e2"}

\* What an awaited call into the client library does: it returns, or raises
\* InvalidAuthenticationError, or raises something else.
Outcomes == {"ok", "InvalidAuthenticationError", "Exception"}

\* The Home Assistant version the integration runs on, as far as the code
\* tells versions apart: below MIN_REQUIRED_HA_VERSION, at least that but
\* below 2024.2.0b0, and 2024.2.0b0 or later.
HaVersions == {"unsupported", "supported", "2024.2"}

\* The devices of the cloud account.  A legacy device is returned by the API
\* as something that is not a DeviceInfo.
ApiDeviceUniverse ==
    { [did |-> "did1", name |-> "n1", cls |-> "DeviceInfo",
        caps |-> {"map", "water", "clean.work_mode", "error", "clean.log"},
        life_span |-> {"brush", "filter", "side_brush"}],
      [did |-> "did2", name |-> "n2", cls |-> "DeviceInfo",
        caps |-> {"water", "error"}, life_span |-> {"filter"}],
      [did |-> "did3", name |-> "n3", cls |-> "Legacy", caps |-> {}, life_span |-> {}] }

DeviceNames == {d.name : d \in ApiDeviceUniverse}

\* The device selections a config entry may hold, in CONF_DEVICES.
Selections == {<<>>, <<"n1">>, <<"n3">>, <<"n1", "n2">>, <<"n2", "n1">>, <<"n2", "n3">>}

\* entry.options: without the key, or with a selection.
EntryOptions == {EmptyMap} \cup {[devices |-> s] : s \in Selections}

EntryData == [username |-> "user", password |-> "secret", country |-> "it", continent |-> "eu"]


\* ------------------------------------------------------------------ state
VARIABLES
    \* --- Home Assistant and the cloud account
    haVersion,      \* HA_VERSION, as one of HaVersions
    apiDevices,     \* what ApiClient.get_devices() returns
    entryOptions,   \* entry.options of the config entries
    hassData,       \* hass.data: DOMAIN_KEY -> (entry_id -> the object stored)
    ctl,            \* entry_id -> the DeebotController built for that entry
    entryState,     \* entry_id -> how async_setup_entry ended for it
    issue,          \* the deprecation issue exists in the issue registry
    forwarded,      \* entry_id -> the platforms the entry was forwarded to
    updateListener, \* entry_id -> an update listener is registered
    platformResult, \* entry_id -> platform -> what its async_setup_entry did
    \* --- the async_setup_entry call in progress
    pc,             \* where the call is
    pcEntry,        \* the entry it is for
    caller,         \* what called the running teardown: initialize or unload
    idx,            \* position of the running for loop
    devices,        \* the local variable `devices` of initialize
    callLog,        \* the client-library calls of the running initialize, in order
    \* --- diagnostics
    diagResult,     \* what the last async_get_device_diagnostics call did
    \* --- register_platform_add_entities on its own
    regDevices,     \* controller._devices
    regDescriptions,\* the descriptions passed in
    regResult,      \* the entities created and the async_add_entities calls
    \* --- entities and the event bus
    lifecycle,      \* entity -> absent / new / created / ValueError / added / add_failed / removed
    subscriptions,  \* the event bus: the live subscriptions
    onRemove,       \* entity -> the subscriptions its on-remove callbacks unsubscribe
    entState,       \* entity -> its attributes that events set
    writes,         \* entity -> event type -> number of async_write_ha_state calls it caused
    seen,           \* entity -> event type -> the events emitted since it was added
    removedState,   \* entity -> its attributes and writes when it was removed
    nEvents,        \* number of events emitted
    \* --- config flow
    flow,           \* the flow handler's fields and the form it shows
    flowResult,     \* the FlowResult of the last step
    configEntries,  \* the config entries Home Assistant holds
    retrievals,     \* the number of _retrieve_devices calls, and the last one
    nSubmits,       \* number of flow steps run
    \* --- migration
    migEntry,       \* the config entry handed to async_migrate_entry
    migResult       \* what the async_migrate_entry call did

ctlVars == <<haVersion, apiDevices, entryOptions, hassData, ctl, entryState, issue,
             forwarded, updateListener, platformResult, pc, pcEntry, caller, idx,
             devices, callLog, diagResult>>

regVars == <<regDevices, regDescriptions, regResult>>

entVars == <<lifecycle, subscriptions, onRemove, entState, writes, seen,
             removedState, nEvents>>

flowVars == <<flow, flowResult, configEntries, retrievals, nSubmits>>

migVars == <<migEntry, migResult>>

vars == <<ctlVars, regVars, entVars, flowVars, migVars>>

\* ------------------------------------------------- objects and attributes
\* The attributes DeebotController.__init__ assigns.
DeebotControllerAttrs == {"_hass_config", "_hass", "_devices", "_authenticator", "_api_client", "_mqtt"}

\* The attributes DeebotHub.__init__ assigns.
DeebotHubAttrs == {"_hass_config", "_hass", "vacuum_bots", "_authenticator", "_api_client", "_mqtt"}

ClassAttrs(cls) == IF cls = "DeebotController" THEN DeebotControllerAttrs ELSE DeebotHubAttrs

\* hasattr(obj, name)
HasAttr(obj, name) == name \in ClassAttrs(obj.cls)

\* DeebotController(hass, config): no device, a client that is not connected.
NewController(config) ==
    [cls |-> "DeebotController",
     _hass_config |-> config,
     _devices |-> <<>>,
     _mqtt |-> "new",
     _authenticator |-> "live"]

\* Device(device, authenticator) after bot.initialize(mqtt)
NewBot(device) == [device_info |-> device, state |-> "initialized"]

\* The configuration async_setup_entry hands to the controller.
EntryConfig == Merge(EntryData, entryOptions)


\* ------------------------------------------- registration per capability
\* Python's None.
None == "None"

\* The capabilities every supported device has, besides its optional ones.
RequiredCaps == {"stats.clean", "stats.total", "battery", "network"}

\* device.capabilities: the capability paths that are not None.
Capabilities(bot) == bot.device_info.caps \cup RequiredCaps

\* description.capability_fn(capabilities): the capability, or None.
\* button.py's `caps.map.relocation if caps.map else None` is there exactly
\* when caps.map is.
capability_fn(description, caps) ==
    IF description.cap = "map.relocation"
    THEN (IF "map" \in caps THEN "map.relocation" ELSE None)
    ELSE (IF description.cap \in caps THEN description.cap ELSE None)

\* entity_class(device, capability, description)
NewEntity(entity_class, bot, capability, key) ==
    [cls |-> entity_class, did |-> bot.device_info.did, key |-> key, capability |-> capability]

\* The inner loop of register_platform_add_entities, from description j on.
RECURSIVE DescriptionLoop(_, _, _, _)
DescriptionLoop(entity_class, bot, descriptions, j) ==
    IF j > Len(descriptions) THEN <<>>
    ELSE LET capability == capability_fn(descriptions[j], Capabilities(bot))
         IN (IF capability # None
             THEN <<NewEntity(entity_class, bot, capability, descriptions[j].key)>>
             ELSE <<>>)
            \o DescriptionLoop(entity_class, bot, descriptions, j + 1)

\* The outer loop of register_platform_add_entities, from device i on.
RECURSIVE DeviceLoop(_, _, _, _)
DeviceLoop(entity_class, bots, descriptions, i) ==
    IF i > Len(bots) THEN <<>>
    ELSE DescriptionLoop(entity_class, bots[i], descriptions, 1)
         \o DeviceLoop(entity_class, bots, descriptions, i + 1)

\* A bug: async_add_entities is called whatever the list holds.
register_platform_add_entities_always_adds(bots, entity_class, descriptions) ==
    LET new_entites == DeviceLoop(entity_class, bots, descriptions, 1)
    IN [new_entites |-> new_entites, add_calls |-> <<new_entites>>]

\* DeebotController.register_platform_add_entities: the entities created, and
\* the calls of async_add_entities with their argument.
register_platform_add_entities(bots, entity_class, descriptions) ==
    LET new_entites == DeviceLoop(entity_class, bots, descriptions, 1)
    IN [new_entites |-> new_entites,
        add_calls |-> IF new_entites # <<>> THEN <<new_entites>> ELSE <<>>]

\* sensor.py LIFE_SPAN_DESCRIPTIONS, by component
LifeSpanComponents == <<"brush", "filter", "side_brush">>

\* button.py generate_reset_life_span
generate_reset_life_span(bot) ==
    LET types == SelectSeq(LifeSpanComponents, LAMBDA c : c \in bot.device_info.life_span)
    IN [j \in 1..Len(types) |->
          NewEntity("DeebotResetLifeSpanButtonEntity", bot, None, types[j])]

\* sensor.py life_span_entity_generator, last_error_entity_generator and
\* last_cleaning_entity_generator, in the order they are passed
sensor_entity_generators(bot) ==
    LET types == SelectSeq(LifeSpanComponents, LAMBDA c : c \in bot.device_info.life_span)
    IN [j \in 1..Len(types) |-> NewEntity("LifeSpanSensor", bot, "life_span", types[j])]
       \o (IF "error" \in Capabilities(bot)
           THEN <<NewEntity("LastErrorSensor", bot, "error", "last_error")>> ELSE <<>>)
       \o (IF "clean.log" \in Capabilities(bot)
           THEN <<NewEntity("LastCleaningSensor", bot, "clean.log", "last_cleaning")>>
           ELSE <<>>)

\* image.py image_entity_generator
image_entity_generator(bot) ==
    IF "map" \in Capabilities(bot)
    THEN <<NewEntity("DeebotMap", bot, "map", "map")>> ELSE <<>>

\* func(device) for the generator function(s) a platform passes
CallGenerator(functions, bot) ==
    CASE functions = "generate_reset_life_span" -> generate_reset_life_span(bot)
      [] functions = "sensor_entity_generators" -> sensor_entity_generators(bot)
      [] functions = "image_entity_generator" -> image_entity_generator(bot)

\* The loops of register_platform_add_entities_generator, from device i on.
RECURSIVE GeneratorLoop(_, _, _)
GeneratorLoop(functions, bots, i) ==
    IF i > Len(bots) THEN <<>>
    ELSE CallGenerator(functions, bots[i]) \o GeneratorLoop(functions, bots, i + 1)

\* DeebotController.register_platform_add_entities_generator
register_platform_add_entities_generator(bots, functions) ==
    LET new_entites == GeneratorLoop(functions, bots, 1)
    IN [new_entites |-> new_entites,
        add_calls |-> IF new_entites # <<>> THEN <<new_entites>> ELSE <<>>]

\* ------------------------------------------------- the platforms' setups
\* button.py ENTITY_DESCRIPTIONS
ButtonDescriptions == <<[key |-> "relocate", cap |-> "map.relocation"]>>

\* select.py ENTITY_DESCRIPTIONS
SelectDescriptions ==
    <<[key |-> "water_amount", cap |-> "water"],
      [key |-> "work_mode", cap |-> "clean.work_mode"]>>

\* sensor.py ENTITY_DESCRIPTIONS
SensorDescriptions ==
    <<[key |-> "stats_area", cap |-> "stats.clean"],
      [key |-> "stats_time", cap |-> "stats.clean"],
      [key |-> "stats_type", cap |-> "stats.clean"],
      [key |-> "stats_total_area", cap |-> "stats.total"],
      [key |-> "stats_total_time", cap |-> "stats.total"],
      [key |-> "stats_total_cleanings", cap |-> "stats.total"],
      [key |-> "battery_level", cap |-> "battery"],
      [key |-> "wifi_ip", cap |-> "network"],
      [key |-> "wifi_rssi", cap |-> "network"],
      [key |-> "wifi_ssid", cap |-> "network"]>>

\* What a platform's async_setup_entry did: the exception it raised (or
\* None) and its async_add_entities calls.
PlatformReturn(add_calls) == [raised |-> None, add_calls |-> add_calls]

PlatformRaise(exc) == [raised |-> exc, add_calls |-> <<>>]

\* The platforms written against DeebotHub (binary_sensor.py, number.py,
\* switch.py, vacuum.py) read hub.vacuum_bots from the stored object and add
\* keys(bot) for each bot.
RECURSIVE HubLoop(_, _, _, _)
HubLoop(entity_class, bots, keys, i) ==
    IF i > Len(bots) THEN <<>>
    ELSE [j \in 1..Len(keys) |-> NewEntity(entity_class, bots[i], None, keys[j])]
         \o HubLoop(entity_class, bots, keys, i + 1)

HubPlatformSetup(hub, entity_class, keys) ==
    IF ~HasAttr(hub, "vacuum_bots")
    THEN PlatformRaise("AttributeError")
    ELSE LET new_devices == HubLoop(entity_class, hub.vacuum_bots, keys, 1)
         IN PlatformReturn(IF new_devices # <<>> THEN <<new_devices>> ELSE <<>>)

\* vacuum.py async_setup_entry
vacuum_async_setup_entry(hub) == HubPlatformSetup(hub, "DeebotVacuum", <<"">>)

\* binary_sensor.py async_setup_entry
binary_sensor_async_setup_entry(hub) ==
    HubPlatformSetup(hub, "DeebotMopAttachedBinarySensor", <<"mop_attached">>)

\* number.py async_setup_entry
number_async_setup_entry(hub) ==
    HubPlatformSetup(hub, "NumberEntity", <<"volume", "clean_count">>)

\* switch.py async_setup_entry
switch_async_setup_entry(hub) ==
    HubPlatformSetup(hub, "DeebotSwitchEntity",
        <<"advanced_mode", "continuous_cleaning", "carpet_auto_fan_speed_boost",
          "clean_preference", "true_detect">>)

\* button.py async_setup_entry
button_async_setup_entry(controller) ==
    PlatformReturn(
        register_platform_add_entities(controller._devices, "DeebotButtonEntity",
                                       ButtonDescriptions).add_calls
        \o register_platform_add_entities_generator(controller._devices,
                                       "generate_reset_life_span").add_calls)

\* select.py async_setup_entry
select_async_setup_entry(controller) ==
    PlatformReturn(
        register_platform_add_entities(controller._devices, "DeebotSelectEntity",
                                       SelectDescriptions).add_calls)

\* sensor.py async_setup_entry
sensor_async_setup_entry(controller) ==
    PlatformReturn(
        register_platform_add_entities(controller._devices, "DeebotSensor",
                                       SensorDescriptions).add_calls
        \o register_platform_add_entities_generator(controller._devices,
                                       "sensor_entity_generators").add_calls)

\* image.py async_setup_entry
image_async_setup_entry(controller) ==
    PlatformReturn(
        register_platform_add_entities_generator(controller._devices,
                                       "image_entity_generator").add_calls)

\* hass.config_entries.async_forward_entry_setups(entry, PLATFORMS): each
\* platform's async_setup_entry runs on the object stored in hass.data.
PlatformSetup(platform, obj) ==
    CASE platform = "binary_sensor" -> binary_sensor_async_setup_entry(obj)
      [] platform = "button" -> button_async_setup_entry(obj)
      [] platform = "image" -> image_async_setup_entry(obj)
      [] platform = "number" -> number_async_setup_entry(obj)
      [] platform = "select" -> select_async_setup_entry(obj)
      [] platform = "sensor" -> sensor_async_setup_entry(obj)
      [] platform = "switch" -> switch_async_setup_entry(obj)
      [] platform = "vacuum" -> vacuum_async_setup_entry(obj)


\* ------------------------------------------------------------ diagnostics
REDACTED == "**REDACTED**"

\* diagnostics.py REDACT_CONFIG
REDACT_CONFIG == {"username", "password", CONF_DEVICES, "title"}

\* diagnostics.py REDACT_DEVICE
REDACT_DEVICE == {"did", "name", "homeId"}

\* async_redact_data on a flat mapping
RedactFlat(m, to_redact) == [k \in DOMAIN m |-> IF k \in to_redact THEN REDACTED ELSE m[k]]

\* config_entry.as_dict(), as far as the integration sets it
as_dict(entry_id, data, options) ==
    [entry_id |-> entry_id, title |-> data.username, data |-> data, options |-> options]

\* async_redact_data(config_entry.as_dict(), REDACT_CONFIG): the keys are
\* redacted at every depth
RedactConfig(d) ==
    [entry_id |-> d.entry_id,
     title |-> REDACTED,
     data |-> RedactFlat(d.data, REDACT_CONFIG),
     options |-> RedactFlat(d.options, REDACT_CONFIG)]

\* The loops of async_get_device_diagnostics over hub.vacuum_bots and
\* device.identifiers: the last bot with a matching identifier decides
\* diag["device"].
RECURSIVE DiagDeviceLoop(_, _, _, _)
DiagDeviceLoop(bots, identifiers, i, diag) ==
    IF i > Len(bots) THEN diag
    ELSE DiagDeviceLoop(bots, identifiers, i + 1,
            IF \E identifier \in identifiers : bots[i].device_info.did = identifier[2]
            THEN Merge(diag, [device |-> RedactFlat(
                     [did |-> bots[i].device_info.did, name |-> bots[i].device_info.name,
                      cls |-> bots[i].device_info.cls], REDACT_DEVICE)])
            ELSE diag)

\* diagnostics.py async_get_device_diagnostics
async_get_device_diagnostics(hub, entry_id, data, options, identifiers) ==
    LET diag == [config |-> RedactConfig(as_dict(entry_id, data, options))]
    IN IF ~HasAttr(hub, "vacuum_bots")
       THEN [raised |-> "AttributeError", diag |-> EmptyMap]
       ELSE [raised |-> None, diag |-> DiagDeviceLoop(hub.vacuum_bots, identifiers, 1, diag)]

\* The identifiers of the device entries diagnostics may be asked for.
IdentifierSets ==
    { {<<DOMAIN_KEY, "did1">>}, {<<DOMAIN_KEY, "did2">>}, {<<DOMAIN_KEY, "did9">>},
      {<<DOMAIN_KEY, "did9">>, <<DOMAIN_KEY, "did1">>} }

\* No diagnostics call has been made since the last setup or unload.
NoDiagnostics == [entry |-> None]

\* -------------------------------------------------- controller life cycle
\* __init__.py is_ha_supported
is_ha_supported == haVersion # "unsupported"

\* A bug: every exception of initialize is reported as ConfigEntryNotReady.
initialize_except_always_not_ready(outcome) == "ConfigEntryNotReady"

\* The except clauses of DeebotController.initialize: the exception that
\* leaves it when a call raised `outcome`.
initialize_except(outcome) ==
    IF outcome = "InvalidAuthenticationError" THEN "ConfigEntryAuthFailed"
    ELSE "ConfigEntryNotReady"

\* A call of the client library in the running initialize.
Logged(call, arg, outcome) == Append(callLog, [call |-> call, arg |-> arg, outcome |-> outcome])

\* A call raised.  In initialize the except clauses turn the exception into
\* the one async_setup_entry lets through; in async_unload_entry, and in a
\* teardown called on its own, nothing catches it.
Raises(outcome) ==
    /\ entryState' = [entryState EXCEPT ![pcEntry] =
            CASE caller = "initialize" -> initialize_except(outcome)
              [] caller = "unload" -> "unload_raised"
              [] OTHER -> "teardown_raised"]
    /\ pc' = "idle"

\* hass.data.setdefault(DOMAIN, {})[entry_id] = controller
Store(data, entry_id) ==
    IF DOMAIN_KEY \in DOMAIN data
    THEN [data EXCEPT ![DOMAIN_KEY] = (entry_id :> entry_id) @@ @]
    ELSE (DOMAIN_KEY :> (entry_id :> entry_id)) @@ data

\* A bug: the controller is stored in hass.data before it is initialized.
async_setup_entry_begin_stores_first(e) ==
    /\ pc = "idle"
    /\ entryState[e] \in {"not_loaded", "ConfigEntryNotReady"}
    /\ is_ha_supported
    /\ issue' = (issue \/ haVersion = "2024.2")
    /\ ctl' = (e :> NewController(EntryConfig)) @@ ctl
    /\ hassData' = Store(hassData, e)
    /\ entryState' = [entryState EXCEPT ![e] = "setup_in_progress"]
    /\ pc' = "teardown"
    /\ pcEntry' = e
    /\ caller' = "initialize"
    /\ idx' = 1
    /\ callLog' = <<>>
    /\ devices' = <<>>
    /\ diagResult' = NoDiagnostics
    /\ UNCHANGED <<haVersion, apiDevices, entryOptions, forwarded, updateListener,
                   platformResult>>
    /\ UNCHANGED <<regVars, entVars, flowVars, migVars>>

\* async_setup_entry, up to the first await of controller.initialize()
async_setup_entry_begin(e) ==
    /\ pc = "idle"
    /\ entryState[e] \in {"not_loaded", "ConfigEntryNotReady"}
    /\ IF ~is_ha_supported
       THEN /\ entryState' = [entryState EXCEPT ![e] = "returned_false"]
            /\ UNCHANGED <<issue, ctl, pc, pcEntry, caller, idx, callLog, devices>>
       ELSE /\ issue' = (issue \/ haVersion = "2024.2")
            /\ ctl' = (e :> NewController(EntryConfig)) @@ ctl
            /\ entryState' = [entryState EXCEPT ![e] = "setup_in_progress"]
            /\ pc' = "teardown"
            /\ pcEntry' = e
            /\ caller' = "initialize"
            /\ idx' = 1
            /\ callLog' = <<>>
            /\ devices' = <<>>
    /\ diagResult' = NoDiagnostics
    /\ UNCHANGED <<haVersion, apiDevices, entryOptions, hassData, forwarded,
                   updateListener, platformResult>>
    /\ UNCHANGED <<regVars, entVars, flowVars, migVars>>

\* teardown: `await bot.teardown()` for the next device
teardown_device ==
    /\ pc = "teardown"
    /\ idx <= Len(ctl[pcEntry]._devices)
    /\ \E outcome \in Outcomes :
        /\ callLog' = Logged("bot.teardown", ctl[pcEntry]._devices[idx].device_info.did, outcome)
        /\ IF outcome = "ok"
           THEN /\ ctl' = [ctl EXCEPT ![pcEntry]._devices[idx].state = "torn_down"]
                /\ idx' = idx + 1
                /\ UNCHANGED <<pc, entryState>>
           ELSE /\ Raises(outcome)
                /\ UNCHANGED <<ctl, idx>>
    /\ UNCHANGED <<haVersion, apiDevices, entryOptions, hassData, issue, forwarded,
                   updateListener, platformResult, pcEntry, caller, devices, diagResult>>
    /\ UNCHANGED <<regVars, entVars, flowVars, migVars>>

\* A bug: MQTT is disconnected without waiting for the devices' teardown.
teardown_mqtt_before_devices ==
    /\ pc = "teardown"
    /\ \E outcome \in Outcomes :
        /\ callLog' = Logged("mqtt.disconnect", None, outcome)
        /\ IF outcome = "ok"
           THEN /\ ctl' = [ctl EXCEPT ![pcEntry]._mqtt = "disconnected"]
                /\ pc' = "teardown_authenticator"
                /\ UNCHANGED entryState
           ELSE /\ Raises(outcome)
                /\ UNCHANGED ctl
    /\ UNCHANGED <<haVersion, apiDevices, entryOptions, hassData, issue, forwarded,
                   updateListener, platformResult, pcEntry, caller, idx, devices, diagResult>>
    /\ UNCHANGED <<regVars, entVars, flowVars, migVars>>

\* teardown: `await self._mqtt.disconnect()`
teardown_mqtt ==
    /\ pc = "teardown"
    /\ idx > Len(ctl[pcEntry]._devices)
    /\ \E outcome \in Outcomes :
        /\ callLog' = Logged("mqtt.disconnect", None, outcome)
        /\ IF outcome = "ok"
           THEN /\ ctl' = [ctl EXCEPT ![pcEntry]._mqtt = "disconnected"]
                /\ pc' = "teardown_authenticator"
                /\ UNCHANGED entryState
           ELSE /\ Raises(outcome)
                /\ UNCHANGED ctl
    /\ UNCHANGED <<haVersion, apiDevices, entryOptions, hassData, issue, forwarded,
                   updateListener, platformResult, pcEntry, caller, idx, devices, diagResult>>
    /\ UNCHANGED <<regVars, entVars, flowVars, migVars>>

\* teardown: `await self._authenticator.teardown()`
teardown_authenticator ==
    /\ pc = "teardown_authenticator"
    /\ \E outcome \in Outcomes :
        /\ callLog' = Logged("authenticator.teardown", None, outcome)
        /\ IF outcome = "ok"
           THEN /\ ctl' = [ctl EXCEPT ![pcEntry]._authenticator = "torn_down"]
                /\ pc' = CASE caller = "initialize" -> "get_devices"
                            [] caller = "unload" -> "unload_finish"
                            [] OTHER -> "idle"
                /\ UNCHANGED entryState
           ELSE /\ Raises(outcome)
                /\ UNCHANGED ctl
    /\ UNCHANGED <<haVersion, apiDevices, entryOptions, hassData, issue, forwarded,
                   updateListener, platformResult, pcEntry, caller, idx, devices, diagResult>>
    /\ UNCHANGED <<regVars, entVars, flowVars, migVars>>

\* initialize: `devices = await self._api_client.get_devices()`
initialize_get_devices ==
    /\ pc = "get_devices"
    /\ \E outcome \in Outcomes :
        /\ callLog' = Logged("api_client.get_devices", None, outcome)
        /\ IF outcome = "ok"
           THEN /\ devices' = apiDevices
                /\ pc' = "mqtt_connect"
                /\ UNCHANGED entryState
           ELSE /\ Raises(outcome)
                /\ UNCHANGED devices
    /\ UNCHANGED <<haVersion, apiDevices, entryOptions, hassData, ctl, issue, forwarded,
                   updateListener, platformResult, pcEntry, caller, idx, diagResult>>
    /\ UNCHANGED <<regVars, entVars, flowVars, migVars>>

\* A bug: the devices are initialized before the push channel is opened.
initialize_mqtt_connect_skipped ==
    /\ pc = "mqtt_connect"
    /\ pc' = "devices"
    /\ idx' = 1
    /\ UNCHANGED <<haVersion, apiDevices, entryOptions, hassData, ctl, entryState, issue,
                   forwarded, updateListener, platformResult, pcEntry, caller, devices,
                   callLog, diagResult>>
    /\ UNCHANGED <<regVars, entVars, flowVars, migVars>>

\* initialize: `await self._mqtt.connect()`
initialize_mqtt_connect ==
    /\ pc = "mqtt_connect"
    /\ \E outcome \in Outcomes :
        /\ callLog' = Logged("mqtt.connect", None, outcome)
        /\ IF outcome = "ok"
           THEN /\ ctl' = [ctl EXCEPT ![pcEntry]._mqtt = "connected"]
                /\ pc' = "devices"
                /\ idx' = 1
                /\ UNCHANGED entryState
           ELSE /\ Raises(outcome)
                /\ UNCHANGED <<ctl, idx>>
    /\ UNCHANGED <<haVersion, apiDevices, entryOptions, hassData, issue, forwarded,
                   updateListener, platformResult, pcEntry, caller, devices, diagResult>>
    /\ UNCHANGED <<regVars, entVars, flowVars, migVars>>

\* A bug: the isinstance test is missing, a legacy device is taken too.
IsSelected_without_isinstance(device, config) ==
    device.name \in Range(Get(config, CONF_DEVICES, <<>>))

\* The test of initialize's loop body: a DeviceInfo whose name is in
\* CONF_DEVICES.
IsSelected(device, config) ==
    /\ device.cls = "DeviceInfo"
    /\ device.name \in Range(Get(config, CONF_DEVICES, <<>>))

\* initialize: one turn of `for device in devices`
initialize_device ==
    /\ pc = "devices"
    /\ idx <= Len(devices)
    /\ LET device == devices[idx]
       IN IF ~IsSelected(device, ctl[pcEntry]._hass_config)
          THEN /\ idx' = idx + 1
               /\ UNCHANGED <<ctl, callLog, pc, entryState>>
          ELSE \E outcome \in Outcomes :
                 /\ callLog' = Logged("bot.initialize", device.did, outcome)
                 /\ IF outcome = "ok"
                    THEN /\ ctl' = [ctl EXCEPT ![pcEntry]._devices = Append(@, NewBot(device))]
                         /\ idx' = idx + 1
                         /\ UNCHANGED <<pc, entryState>>
                    ELSE /\ Raises(outcome)
                         /\ UNCHANGED <<ctl, idx>>
    /\ UNCHANGED <<haVersion, apiDevices, entryOptions, hassData, issue, forwarded,
                   updateListener, platformResult, pcEntry, caller, devices, diagResult>>
    /\ UNCHANGED <<regVars, entVars, flowVars, migVars>>

\* async_setup_entry after controller.initialize() returned: the controller
\* is stored, the entry forwarded to the platforms, the update listener added.
async_setup_entry_finish ==
    /\ pc = "devices"
    /\ idx > Len(devices)
    /\ hassData' = Store(hassData, pcEntry)
    /\ forwarded' = [forwarded EXCEPT ![pcEntry] = Range(PLATFORMS)]
    /\ platformResult' = [platformResult EXCEPT ![pcEntry] =
            [p \in Range(PLATFORMS) |-> PlatformSetup(p, ctl[hassData'[DOMAIN_KEY][pcEntry]])]]
    /\ updateListener' = [updateListener EXCEPT ![pcEntry] = TRUE]
    /\ entryState' = [entryState EXCEPT ![pcEntry] = "loaded"]
    /\ pc' = "idle"
    /\ UNCHANGED <<haVersion, apiDevices, entryOptions, ctl, issue, pcEntry, caller,
                   idx, devices, callLog, diagResult>>
    /\ UNCHANGED <<regVars, entVars, flowVars, migVars>>

\* The platform sets whose unload Home Assistant may report as failed.
UnloadFailures == {{}, {"vacuum"}, {"sensor", "switch"}}

\* A bug: the DOMAIN key is left in hass.data when its last entry is popped.
Pop_keeps_domain(data, entry_id) ==
    [data EXCEPT ![DOMAIN_KEY] =
        [k \in (DOMAIN data[DOMAIN_KEY]) \ {entry_id} |-> data[DOMAIN_KEY][k]]]

\* hass.data[DOMAIN].pop(entry_id), and hass.data.pop(DOMAIN) when that
\* leaves it empty
Pop(data, entry_id) ==
    LET rest == [k \in (DOMAIN data[DOMAIN_KEY]) \ {entry_id} |-> data[DOMAIN_KEY][k]]
    IN IF DOMAIN rest = {} THEN [k \in (DOMAIN data) \ {DOMAIN_KEY} |-> data[k]]
       ELSE [data EXCEPT ![DOMAIN_KEY] = rest]

\* A bug: the controller is torn down whatever the platforms' unload reported.
async_unload_entry_begin_ignores_unload_ok(e) ==
    /\ pc = "idle"
    /\ entryState[e] = "loaded"
    /\ \E failed \in UnloadFailures :
        /\ forwarded' = [forwarded EXCEPT ![e] = failed]
        /\ platformResult' = [platformResult EXCEPT ![e] = [p \in failed |-> @[p]]]
        /\ pc' = "teardown"
        /\ pcEntry' = e
        /\ caller' = "unload"
        /\ idx' = 1
        /\ callLog' = <<>>
        /\ entryState' = [entryState EXCEPT ![e] = "unload_in_progress"]
    /\ diagResult' = NoDiagnostics
    /\ UNCHANGED <<haVersion, apiDevices, entryOptions, hassData, ctl, issue,
                   updateListener, devices>>
    /\ UNCHANGED <<regVars, entVars, flowVars, migVars>>

\* async_unload_entry, up to the first await of the controller's teardown
async_unload_entry_begin(e) ==
    /\ pc = "idle"
    /\ entryState[e] = "loaded"
    /\ \E failed \in UnloadFailures :
        /\ forwarded' = [forwarded EXCEPT ![e] = failed]
        /\ platformResult' = [platformResult EXCEPT ![e] = [p \in failed |-> @[p]]]
        /\ IF failed = {}
           THEN /\ pc' = "teardown"
                /\ pcEntry' = e
                /\ caller' = "unload"
                /\ idx' = 1
                /\ callLog' = <<>>
                /\ entryState' = [entryState EXCEPT ![e] = "unload_in_progress"]
           ELSE /\ entryState' = [entryState EXCEPT ![e] = "unload_returned_false"]
                /\ UNCHANGED <<pc, pcEntry, caller, idx, callLog>>
    /\ diagResult' = NoDiagnostics
    /\ UNCHANGED <<haVersion, apiDevices, entryOptions, hassData, ctl, issue,
                   updateListener, devices>>
    /\ UNCHANGED <<regVars, entVars, flowVars, migVars>>

\* async_unload_entry after the teardown returned
async_unload_entry_finish ==
    /\ pc = "unload_finish"
    /\ hassData' = Pop(hassData, pcEntry)
    /\ issue' = (issue /\ DOMAIN_KEY \in DOMAIN hassData')
    /\ updateListener' = [updateListener EXCEPT ![pcEntry] = FALSE]
    /\ entryState' = [entryState EXCEPT ![pcEntry] = "not_loaded"]
    /\ pc' = "idle"
    /\ UNCHANGED <<haVersion, apiDevices, entryOptions, ctl, forwarded, platformResult,
                   pcEntry, caller, idx, devices, callLog, diagResult>>
    /\ UNCHANGED <<regVars, entVars, flowVars, migVars>>

\* The diagnostics of a device are downloaded for a loaded entry.
get_device_diagnostics(e) ==
    /\ pc = "idle"
    /\ entryState[e] = "loaded"
    /\ \E identifiers \in IdentifierSets :
         diagResult' = [entry |-> e, identifiers |-> identifiers,
                        result |-> async_get_device_diagnostics(
                            ctl[hassData[DOMAIN_KEY][e]], e, EntryData, entryOptions,
                            identifiers)]
    /\ UNCHANGED <<haVersion, apiDevices, entryOptions, hassData, ctl, entryState,
                   issue, forwarded, updateListener, platformResult, pc, pcEntry, caller,
                   idx, devices, callLog>>
    /\ UNCHANGED <<regVars, entVars, flowVars, migVars>>

NoPlatformResult == [p \in {} |-> p]

CtlIdle ==
    /\ hassData = EmptyMap
    /\ ctl = EmptyMap
    /\ entryState = [e \in EntryIds |-> "not_loaded"]
    /\ issue = FALSE
    /\ forwarded = [e \in EntryIds |-> {}]
    /\ updateListener = [e \in EntryIds |-> FALSE]
    /\ platformResult = [e \in EntryIds |-> NoPlatformResult]
    /\ pc = "idle"
    /\ pcEntry = "e1"
    /\ caller = "initialize"
    /\ idx = 1
    /\ devices = <<>>
    /\ callLog = <<>>
    /\ diagResult = NoDiagnostics

CtlFixed ==
    /\ haVersion = "2024.2"
    /\ apiDevices = <<>>
    /\ entryOptions = EmptyMap
    /\ CtlIdle

RegFixed ==
    /\ regDevices = <<>>
    /\ regDescriptions = <<>>
    /\ regResult = [done |-> FALSE]

EntFixed ==
    /\ lifecycle = EmptyMap
    /\ subscriptions = {}
    /\ onRemove = EmptyMap
    /\ entState = EmptyMap
    /\ writes = EmptyMap
    /\ seen = EmptyMap
    /\ removedState = EmptyMap
    /\ nEvents = 0

FlowFixed ==
    /\ flow = [step |-> None]
    /\ flowResult = [type |-> None]
    /\ configEntries = <<>>
    /\ retrievals = [count |-> 0]
    /\ nSubmits = 0

MigFixed ==
    /\ migEntry = [version |-> 4]
    /\ migResult = [done |-> FALSE]

Init ==
    /\ haVersion \in HaVersions
    /\ apiDevices \in InjSeqs(ApiDeviceUniverse, MaxApiLen)
    /\ entryOptions \in EntryOptions
    /\ CtlIdle
    /\ RegFixed /\ EntFixed /\ FlowFixed /\ MigFixed

Next ==
    \/ \E e \in EntryIds : async_setup_entry_begin(e)
    \/ teardown_device
    \/ teardown_mqtt
    \/ teardown_authenticator
    \/ initialize_get_devices
    \/ initialize_mqtt_connect
    \/ initialize_device
    \/ async_setup_entry_finish
    \/ \E e \in EntryIds : async_unload_entry_begin(e)
    \/ async_unload_entry_finish
    \/ \E e \in EntryIds : get_device_diagnostics(e)

Spec == Init /\ [][Next]_vars

\* ------------------------------------------- one controller, called again
\* The initialize and teardown calls made on the controller so far.
NumCalls == Cardinality({i \in 1..Len(callLog) : callLog[i].call \in {"initialize", "teardown"}})

\* controller.initialize() is called on the controller: its first statement
\* is the teardown.
controller_initialize ==
    /\ pc = "idle"
    /\ NumCalls < MaxCalls
    /\ callLog' = Logged("initialize", None, "called")
    /\ caller' = "initialize"
    /\ pc' = "teardown"
    /\ idx' = 1
    /\ devices' = <<>>
    /\ entryState' = [entryState EXCEPT ![pcEntry] = "initialize_in_progress"]
    /\ UNCHANGED <<haVersion, apiDevices, entryOptions, hassData, ctl, issue, forwarded,
                   updateListener, platformResult, pcEntry, diagResult>>
    /\ UNCHANGED <<regVars, entVars, flowVars, migVars>>

\* initialize returns after the last device of the API's list.
controller_initialize_return ==
    /\ pc = "devices"
    /\ idx > Len(devices)
    /\ pc' = "idle"
    /\ entryState' = [entryState EXCEPT ![pcEntry] = "initialize_returned"]
    /\ UNCHANGED <<haVersion, apiDevices, entryOptions, hassData, ctl, issue, forwarded,
                   updateListener, platformResult, pcEntry, caller, idx, devices, callLog,
                   diagResult>>
    /\ UNCHANGED <<regVars, entVars, flowVars, migVars>>

\* controller.teardown() is called on the controller.
controller_teardown ==
    /\ pc = "idle"
    /\ NumCalls < MaxCalls
    /\ callLog' = Logged("teardown", None, "called")
    /\ caller' = "teardown"
    /\ pc' = "teardown"
    /\ idx' = 1
    /\ entryState' = [entryState EXCEPT ![pcEntry] = "teardown_in_progress"]
    /\ UNCHANGED <<haVersion, apiDevices, entryOptions, hassData, ctl, issue, forwarded,
                   updateListener, platformResult, pcEntry, devices, diagResult>>
    /\ UNCHANGED <<regVars, entVars, flowVars, migVars>>

\* A controller as async_setup_entry constructs it, not yet initialized.
ControllerInit ==
    /\ haVersion = "supported"
    /\ apiDevices \in InjSeqs(ApiDeviceUniverse, MaxApiLen)
    /\ entryOptions \in EntryOptions
    /\ hassData = EmptyMap
    /\ ctl = ("e1" :> NewController(EntryConfig))
    /\ entryState = [e \in EntryIds |-> "not_loaded"]
    /\ issue = FALSE
    /\ forwarded = [e \in EntryIds |-> {}]
    /\ updateListener = [e \in EntryIds |-> FALSE]
    /\ platformResult = [e \in EntryIds |-> NoPlatformResult]
    /\ pc = "idle"
    /\ pcEntry = "e1"
    /\ caller = "initialize"
    /\ idx = 1
    /\ devices = <<>>
    /\ callLog = <<>>
    /\ diagResult = NoDiagnostics
    /\ RegFixed /\ EntFixed /\ FlowFixed /\ MigFixed

ControllerNext ==
    \/ controller_initialize
    \/ controller_teardown
    \/ teardown_device
    \/ teardown_mqtt
    \/ teardown_authenticator
    \/ initialize_get_devices
    \/ initialize_mqtt_connect
    \/ initialize_device
    \/ controller_initialize_return

SpecController == ControllerInit /\ [][ControllerNext]_vars


\* ------------------------------------- register_platform_add_entities alone
\* Sequences over S of length at most n.
SeqsUpTo(S, n) == UNION {[1..k -> S] : k \in 0..n}

\* The devices a controller may hold: every combination of the optional
\* capabilities map and water.
RegBotPool ==
    { NewBot([did |-> "did1", name |-> "n1", cls |-> "DeviceInfo", caps |-> {}, life_span |-> {}]),
      NewBot([did |-> "did2", name |-> "n2", cls |-> "DeviceInfo", caps |-> {"map"}, life_span |-> {}]),
      NewBot([did |-> "did3", name |-> "n3", cls |-> "DeviceInfo", caps |-> {"water"}, life_span |-> {}]),
      NewBot([did |-> "did4", name |-> "n4", cls |-> "DeviceInfo", caps |-> {"map", "water"}, life_span |-> {}]) }

\* The descriptions a platform may pass: of button.py, select.py, sensor.py.
RegDescriptionPool ==
    { [key |-> "relocate", cap |-> "map.relocation"],
      [key |-> "water_amount", cap |-> "water"],
      [key |-> "work_mode", cap |-> "clean.work_mode"],
      [key |-> "battery_level", cap |-> "battery"] }

RegInit ==
    /\ regDevices \in SeqsUpTo(RegBotPool, MaxRegDevices)
    /\ regDescriptions \in SeqsUpTo(RegDescriptionPool, MaxRegDescriptions)
    /\ regResult = [done |-> FALSE]
    /\ CtlFixed /\ EntFixed /\ FlowFixed /\ MigFixed

\* A platform calls controller.register_platform_add_entities.
register_call ==
    /\ ~regResult.done
    /\ regResult' = Merge([done |-> TRUE],
            register_platform_add_entities(regDevices, "DeebotSelectEntity", regDescriptions))
    /\ UNCHANGED <<regDevices, regDescriptions>>
    /\ UNCHANGED <<ctlVars, entVars, flowVars, migVars>>

RegNext == register_call

SpecRegister == RegInit /\ [][RegNext]_vars

\* ---------------------------------------------------------------- C1
\* The (device, description) positions for which capability_fn returns a
\* capability.
CapablePairs ==
    {pr \in (1..Len(regDevices)) \X (1..Len(regDescriptions)) :
        capability_fn(regDescriptions[pr[2]], Capabilities(regDevices[pr[1]])) # None}

\* C1: for every device and description exactly one entity is created when
\* capability_fn returns a capability and none when it returns None;
\* async_add_entities is called at most once, with the entities created, and
\* not at all when none was created.
C1_OneEntityPerCapability ==
    regResult.done =>
        LET new == regResult.new_entites
        IN /\ \A bot \in RegBotPool, description \in RegDescriptionPool :
                 Cardinality({k \in 1..Len(new) :
                     new[k].did = bot.device_info.did /\ new[k].key = description.key})
                 = Cardinality({pr \in CapablePairs :
                     /\ regDevices[pr[1]] = bot
                     /\ regDescriptions[pr[2]] = description})
           /\ Len(new) = Cardinality(CapablePairs)
           /\ \A k \in 1..Len(new) : new[k].capability # None
           /\ Len(regResult.add_calls) <= 1
           /\ new = <<>> => regResult.add_calls = <<>>
           /\ new # <<>> => regResult.add_calls = <<new>>

\* Two devices and two descriptions, some pairs with a capability and some
\* without: entities were created and added.
C1_Witness ==
    /\ regResult.done
    /\ Len(regDevices) = 2 /\ Len(regDescriptions) = 2
    /\ CapablePairs # {}
    /\ CapablePairs # (1..2) \X (1..2)
    /\ Len(regResult.add_calls) = 1

\* --------------------------------------------- entities and the event bus
\* The entity kinds; a behaviour follows one entity of one kind, since
\* entities share nothing but the bus they subscribe to.  DeebotVacuum and
\* DeebotSwitchEntity derive from DeebotEntity and reach the event bus
\* through self._vacuum_bot; DeebotSelectEntity derives from DeebotEntity and
\* reaches it through self._device; DeebotMopAttachedBinarySensor derives
\* from BinarySensorEntity alone and assigns self._vacuum_bot itself.
Entities == {"DeebotVacuum", "DeebotSwitchEntity", "DeebotMopAttachedBinarySensor",
             "DeebotSelectEntity"}

\* The classes derived from entity.py's DeebotEntity.
DeebotEntityClasses == {"DeebotVacuum", "DeebotSwitchEntity", "DeebotSelectEntity"}

\* The attributes an instance has after __init__.  DeebotEntity.__init__
\* assigns _device, _capability and _attr_unique_id; the subclasses'
\* __init__ add their own fields.
InstanceAttrs(ent) ==
    CASE ent = "DeebotVacuum" ->
            {"_device", "_capability", "_attr_unique_id",
             "_battery", "_fan_speed", "_state", "_rooms", "_last_error"}
      [] ent = "DeebotSwitchEntity" ->
            {"_device", "_capability", "_attr_unique_id", "_event_type", "_set_command"}
      [] ent = "DeebotSelectEntity" ->
            {"_device", "_capability", "_attr_unique_id", "_attr_options"}
      [] ent = "DeebotMopAttachedBinarySensor" ->
            {"_vacuum_bot", "_attr_name", "_attr_unique_id"}

\* The attribute through which the class's async_added_to_hass reaches the
\* event bus.
BusAttr(ent) == IF ent = "DeebotSelectEntity" THEN "_device" ELSE "_vacuum_bot"

\* The (event type, callback) pairs the class's own async_added_to_hass
\* subscribes, in order.
ClassSubscriptions(ent) ==
    CASE ent = "DeebotVacuum" ->
            <<<<"BatteryEvent", "on_battery">>, <<"CustomCommandEvent", "on_custom_command">>,
              <<"ErrorEvent", "on_error">>, <<"FanSpeedEvent", "on_fan_speed">>,
              <<"ReportStatsEvent", "on_report_stats">>, <<"RoomsEvent", "on_rooms">>,
              <<"StateEvent", "on_status">> >>
      [] ent = "DeebotSwitchEntity" -> << <<"AdvancedModeEvent", "on_enable">> >>
      [] ent = "DeebotSelectEntity" -> << <<"WaterInfoEvent", "on_water_info">> >>
      [] ent = "DeebotMopAttachedBinarySensor" -> << <<"WaterInfoEvent", "on_event">> >>

\* events.subscribe(event_type, callback): the subscription on the bus
Subscription(ent, pair) == [owner |-> ent, event |-> pair[1], callback |-> pair[2]]

\* The event types emitted, with their values.
EventValues ==
    [AvailabilityEvent |-> {[available |-> "True"], [available |-> "False"]},
     BatteryEvent |-> {[value |-> "50"], [value |-> "100"]},
     FanSpeedEvent |-> {[speed |-> "max"]},
     StateEvent |-> {[state |-> "cleaning"]},
     AdvancedModeEvent |-> {[enable |-> "True"], [enable |-> "False"]},
     WaterInfoEvent |-> {[mop_attached |-> "True", amount |-> "low"],
                         [mop_attached |-> "False", amount |-> "high"]}]

EventTypes == DOMAIN EventValues

\* The attributes of a new entity that callbacks set.
InitialState(ent) ==
    CASE ent = "DeebotVacuum" ->
            [_attr_available |-> "True", _battery |-> None, _fan_speed |-> None, _state |-> None]
      [] ent = "DeebotSwitchEntity" -> [_attr_available |-> "True", _attr_is_on |-> "False"]
      [] ent = "DeebotSelectEntity" -> [_attr_available |-> "True", _attr_current_option |-> None]
      [] ent = "DeebotMopAttachedBinarySensor" -> [_attr_is_on |-> None]

\* What a callback does to the entity's attributes.
RunCallback(callback, st, event) ==
    CASE callback = "on_available" -> [st EXCEPT !._attr_available = event.available]
      [] callback = "on_battery" -> [st EXCEPT !._battery = event.value]
      [] callback = "on_fan_speed" -> [st EXCEPT !._fan_speed = event.speed]
      [] callback = "on_status" -> [st EXCEPT !._state = event.state]
      [] callback = "on_enable" -> [st EXCEPT !._attr_is_on = event.enable]
      [] callback = "on_event" -> [st EXCEPT !._attr_is_on = event.mop_attached]
      [] callback = "on_water_info" -> [st EXCEPT !._attr_current_option = event.amount]
      [] OTHER -> st

\* Whether the callback ends with self.async_write_ha_state().
WritesState(callback) == callback \notin {"on_custom_command", "on_report_stats"}

\* A bug: the availability subscription is taken and its unsubscribe callback
\* is not handed to async_on_remove.
DeebotEntity_async_added_to_hass_not_registered(ent) ==
    IF ent \in DeebotEntityClasses
    THEN [subscribed |-> {Subscription(ent, <<"AvailabilityEvent", "on_available">>)},
          on_remove |-> {}]
    ELSE [subscribed |-> {}, on_remove |-> {}]

\* DeebotEntity.async_added_to_hass (no entity here sets _always_available):
\* the subscription taken and what is registered with async_on_remove.
\* DeebotMopAttachedBinarySensor does not inherit it.
DeebotEntity_async_added_to_hass(ent) ==
    IF ent \in DeebotEntityClasses
    THEN [subscribed |-> {Subscription(ent, <<"AvailabilityEvent", "on_available">>)},
          on_remove |-> {Subscription(ent, <<"AvailabilityEvent", "on_available">>)}]
    ELSE [subscribed |-> {}, on_remove |-> {}]

\* util.py unsubscribe_listeners, and listener.unsubscribe: the
\* subscriptions that calling it removes.
unsubscribe_listeners(listeners) == Range(listeners)

\* The class's own part of async_added_to_hass, after super()'s: it raises
\* AttributeError when the attribute that leads to the bus was never
\* assigned; otherwise it subscribes its callbacks and registers their
\* removal.
Class_async_added_to_hass(ent) ==
    IF BusAttr(ent) \notin InstanceAttrs(ent)
    THEN [raised |-> "AttributeError", subscribed |-> {}, on_remove |-> {}]
    ELSE LET listeners == [i \in 1..Len(ClassSubscriptions(ent)) |->
                              Subscription(ent, ClassSubscriptions(ent)[i])]
         IN [raised |-> None, subscribed |-> Range(listeners),
             on_remove |-> unsubscribe_listeners(listeners)]

\* The classes whose __init__ hands DeebotEntity.__init__ the description in
\* the place of the capability and no entity_description.
PassNoDescription == {"DeebotVacuum", "DeebotSwitchEntity"}

\* DeebotEntity.__init__: without an entity_description argument it raises
\* ValueError unless the instance already has the attribute, which depends
\* on the Home Assistant base class: both outcomes are possible.
InitOutcomes(ent) ==
    IF ent \in PassNoDescription THEN {"created", "ValueError"} ELSE {"created"}

\* The platform constructs the entity.
entity_init(ent) ==
    /\ lifecycle[ent] = "new"
    /\ \E outcome \in InitOutcomes(ent) :
           lifecycle' = [lifecycle EXCEPT ![ent] = outcome]
    /\ UNCHANGED <<subscriptions, onRemove, entState, writes, seen, removedState, nEvents>>
    /\ UNCHANGED <<ctlVars, regVars, flowVars, migVars>>

NoEvents == [t \in EventTypes |-> [last |-> None, count |-> 0]]

NoWrites == [t \in EventTypes |-> 0]

\* Home Assistant adds the entity: async_added_to_hass runs.
async_added_to_hass(ent) ==
    /\ lifecycle[ent] = "created"
    /\ LET base == DeebotEntity_async_added_to_hass(ent)
           own == Class_async_added_to_hass(ent)
       IN /\ subscriptions' = subscriptions \cup base.subscribed \cup own.subscribed
          /\ onRemove' = [onRemove EXCEPT ![ent] = base.on_remove \cup own.on_remove]
          /\ lifecycle' = [lifecycle EXCEPT ![ent] =
                  IF own.raised = None THEN "added" ELSE "add_failed"]
    /\ UNCHANGED <<entState, writes, seen, removedState, nEvents>>
    /\ UNCHANGED <<ctlVars, regVars, flowVars, migVars>>

\* Home Assistant removes the entity: the callbacks registered with
\* async_on_remove run.
async_remove(ent) ==
    /\ lifecycle[ent] \in {"added", "add_failed"}
    /\ subscriptions' = subscriptions \ onRemove[ent]
    /\ onRemove' = [onRemove EXCEPT ![ent] = {}]
    /\ lifecycle' = [lifecycle EXCEPT ![ent] = "removed"]
    /\ removedState' = [removedState EXCEPT ![ent] =
            [state |-> entState[ent], writes |-> writes[ent], seen |-> seen[ent],
             unsubscribed |-> onRemove[ent]]]
    /\ UNCHANGED <<entState, writes, seen, nEvents>>
    /\ UNCHANGED <<ctlVars, regVars, flowVars, migVars>>

\* The callbacks of an entity subscribed to an event type.
CallbacksOf(ent, type) == {sub.callback : sub \in {x \in subscriptions : x.owner = ent /\ x.event = type}}

\* The device emits an event: the bus runs every callback subscribed to its
\* type.  (An entity has at most one callback per event type.)
emit(type) ==
    /\ nEvents < MaxEvents
    /\ \E event \in EventValues[type] :
        /\ entState' = [ent \in Entities |->
               IF CallbacksOf(ent, type) = {} THEN entState[ent]
               ELSE RunCallback(CHOOSE c \in CallbacksOf(ent, type) : TRUE, entState[ent], event)]
        /\ writes' = [ent \in Entities |->
               IF \E c \in CallbacksOf(ent, type) : WritesState(c)
               THEN [writes[ent] EXCEPT ![type] = @ + 1]
               ELSE writes[ent]]
        /\ seen' = [ent \in Entities |->
               IF lifecycle[ent] \in {"added", "add_failed", "removed"}
               THEN [seen[ent] EXCEPT ![type] = [last |-> event, count |-> @.count + 1]]
               ELSE seen[ent]]
    /\ nEvents' = nEvents + 1
    /\ UNCHANGED <<lifecycle, subscriptions, onRemove, removedState>>
    /\ UNCHANGED <<ctlVars, regVars, flowVars, migVars>>

NotRemoved == [state |-> None]

EntInit ==
    /\ \E created \in Entities :
           lifecycle = [ent \in Entities |-> IF ent = created THEN "new" ELSE "absent"]
    /\ subscriptions = {}
    /\ onRemove = [ent \in Entities |-> {}]
    /\ entState = [ent \in Entities |-> InitialState(ent)]
    /\ writes = [ent \in Entities |-> NoWrites]
    /\ seen = [ent \in Entities |-> NoEvents]
    /\ removedState = [ent \in Entities |-> NotRemoved]
    /\ nEvents = 0
    /\ CtlFixed /\ RegFixed /\ FlowFixed /\ MigFixed

EntNext ==
    \/ \E ent \in Entities : entity_init(ent)
    \/ \E ent \in Entities : async_added_to_hass(ent)
    \/ \E ent \in Entities : async_remove(ent)
    \/ \E type \in EventTypes : emit(type)

SpecEntities == EntInit /\ [][EntNext]_vars

\* ---------------------------------------------------------------- C2
\* The live subscriptions of an entity.
SubscriptionsOf(ent) == {sub \in subscriptions : sub.owner = ent}

\* C2: every subscription an entity takes in async_added_to_hass is
\* registered for removal, and once the entity is removed none of its
\* callbacks is subscribed and no later event changes its attributes or
\* writes its state.
C2_RemovedEntityUnsubscribed ==
    \A ent \in Entities :
        /\ lifecycle[ent] \in {"added", "add_failed"} => SubscriptionsOf(ent) \subseteq onRemove[ent]
        /\ lifecycle[ent] = "removed" =>
              /\ SubscriptionsOf(ent) = {}
              /\ entState[ent] = removedState[ent].state
              /\ writes[ent] = removedState[ent].writes

\* An entity that held the availability subscription and its own was
\* removed, and an event of a type it had subscribed was emitted afterwards.
C2_Witness ==
    \E ent \in Entities :
        /\ lifecycle[ent] = "removed"
        /\ Cardinality(removedState[ent].unsubscribed) >= 2
        /\ \E sub \in removedState[ent].unsubscribed :
              /\ removedState[ent].writes[sub.event] > 0
              /\ seen[ent][sub.event].count > removedState[ent].seen[sub.event].count

\* ---------------------------------------------------------------- C6
\* The entity has been added to Home Assistant and not removed.
InHass(ent) == lifecycle[ent] \in {"added", "add_failed"}

\* C6 (as claimed): while an entity is in Home Assistant its state follows
\* the events: the switch's is_on is the enable flag of the most recent
\* event of its type (False before the first), the binary sensor's is_on is
\* mop_attached of the most recent water event, the vacuum's battery level,
\* fan speed and state are those of the most recent events, and each such
\* event causes exactly one state write.
C6_StateFollowsEvents ==
    LET Last(ent, type) == seen[ent][type].last
        Follows(ent, type, attr, field, initial) ==
            /\ entState[ent][attr] =
                  IF seen[ent][type].count = 0 THEN initial ELSE Last(ent, type)[field]
            /\ writes[ent][type] = seen[ent][type].count
    IN /\ InHass("DeebotSwitchEntity") =>
             Follows("DeebotSwitchEntity", "AdvancedModeEvent", "_attr_is_on", "enable", "False")
       /\ InHass("DeebotMopAttachedBinarySensor") =>
             Follows("DeebotMopAttachedBinarySensor", "WaterInfoEvent", "_attr_is_on",
                     "mop_attached", None)
       /\ InHass("DeebotVacuum") =>
             /\ Follows("DeebotVacuum", "BatteryEvent", "_battery", "value", None)
             /\ Follows("DeebotVacuum", "FanSpeedEvent", "_fan_speed", "speed", None)
             /\ Follows("DeebotVacuum", "StateEvent", "_state", "state", None)

\* -------------------------------------------------------------- migration
CONF_BUMPER == "Bumper"

CONF_VERIFY_SSL == "verify_ssl"

CONF_CLIENT_DEVICE_ID == "client_device_id"

\* util.py get_bumper_device_id: the id it returns.
get_bumper_device_id == "bumper_id"

\* dict without a key: new.pop(key)
Without(m, k) == [x \in (DOMAIN m) \ {k} |-> m[x]]

\* A bug: the step from version 1 forgets the nested device list.
migrate_1_to_2_drops_devices(entry) ==
    LET new == Merge(entry.data, [verify_ssl |-> TRUE])
        new1 == Without(new, "deviceid")
    IN IF "show_color_rooms" \notin DOMAIN new1 \/ "live_map" \notin DOMAIN new1
       THEN [raised |-> "KeyError", entry |-> entry]
       ELSE [raised |-> None,
             entry |-> [entry EXCEPT
                 !.data = Merge(Without(Without(new1, "show_color_rooms"), "live_map"),
                                [devices |-> <<>>]),
                 !.version = 2]]

\* async_migrate_entry, the step from version 1: new.pop without a default
\* raises KeyError, before the entry is assigned to.
migrate_1_to_2(entry) ==
    LET new == Merge(entry.data, [verify_ssl |-> TRUE])
        nested == Get(new, "deviceid", EmptyMap)
        new1 == Without(new, "deviceid")
    IN IF "show_color_rooms" \notin DOMAIN new1 \/ "live_map" \notin DOMAIN new1
       THEN [raised |-> "KeyError", entry |-> entry]
       ELSE [raised |-> None,
             entry |-> [entry EXCEPT
                 !.data = Merge(Without(Without(new1, "show_color_rooms"), "live_map"),
                                [devices |-> Get(nested, "deviceid", <<>>)]),
                 !.version = 2]]

\* async_migrate_entry, the step from version 2
migrate_2_to_3(entry) ==
    [raised |-> None,
     entry |-> [entry EXCEPT
         !.data = IF Get(entry.data, CONF_USERNAME, None) = CONF_BUMPER
                  THEN Merge(entry.data, [client_device_id |-> get_bumper_device_id])
                  ELSE entry.data,
         !.version = 3]]

\* async_migrate_entry, the step from version 3
migrate_3_to_4(entry) ==
    IF CONF_DEVICES \notin DOMAIN entry.data
    THEN [raised |-> "KeyError", entry |-> entry]
    ELSE [raised |-> None,
          entry |-> [entry EXCEPT
              !.data = Without(entry.data, CONF_DEVICES),
              !.options = [devices |-> entry.data[CONF_DEVICES]],
              !.version = 4]]

\* One `if config_entry.version == n` of async_migrate_entry, applied to
\* what the ifs before it left: r holds the entry, the exception raised and
\* the steps applied.
MigrateIf(r, version) ==
    IF r.raised # None \/ r.entry.version # version THEN r
    ELSE LET step == CASE version = 1 -> migrate_1_to_2(r.entry)
                       [] version = 2 -> migrate_2_to_3(r.entry)
                       [] OTHER -> migrate_3_to_4(r.entry)
         IN [raised |-> step.raised, entry |-> step.entry,
             steps |-> IF step.raised = None THEN Append(r.steps, version) ELSE r.steps]

\* async_migrate_entry: the three ifs in order, then return True.
async_migrate_entry(entry) ==
    LET r == MigrateIf(MigrateIf(MigrateIf([raised |-> None, entry |-> entry, steps |-> <<>>],
                                           1), 2), 3)
    IN [raised |-> r.raised, entry |-> r.entry, steps |-> r.steps,
        returned |-> r.raised = None]

\* The data a stored entry may hold: credentials, and any of the keys the
\* versions wrote.
MigrationData ==
    {Merge(cred, Merge(deviceid, Merge(rooms, Merge(map, Merge(devs, Merge(ssl, cid)))))) :
        cred \in {[username |-> u, password |-> "pw", country |-> "it", continent |-> "eu"] :
                     u \in {"u1", CONF_BUMPER}},
        deviceid \in {EmptyMap, [deviceid |-> EmptyMap],
                      [deviceid |-> [deviceid |-> <<"n1">>]]},
        rooms \in {EmptyMap, [show_color_rooms |-> FALSE]},
        map \in {EmptyMap, [live_map |-> TRUE]},
        devs \in {EmptyMap, [devices |-> <<"n1", "n2">>]},
        ssl \in {EmptyMap, [verify_ssl |-> FALSE]},
        cid \in {EmptyMap, [client_device_id |-> "old_id"]}}

\* The versions of stored entries.
MigrationVersions == 1..4

MigInit ==
    /\ migEntry \in [version : MigrationVersions, data : MigrationData,
                     options : {EmptyMap, [devices |-> <<"n2">>]}]
    /\ migResult = [done |-> FALSE]
    /\ CtlFixed /\ RegFixed /\ EntFixed /\ FlowFixed

\* Home Assistant calls async_migrate_entry for the stored entry.
migrate_call ==
    /\ ~migResult.done
    /\ LET r == async_migrate_entry(migEntry)
       IN /\ migEntry' = r.entry
          /\ migResult' = [done |-> TRUE, before |-> migEntry, raised |-> r.raised,
                           returned |-> r.returned, steps |-> r.steps]
    /\ UNCHANGED <<ctlVars, regVars, entVars, flowVars>>

MigNext == migrate_call

SpecMigrate == MigInit /\ [][MigNext]_vars

\* ---------------------------------------------------------------- C17
\* C17 (as claimed): whatever keys its data holds, an entry of version 1, 2
\* or 3 is at version 4 after one call, by the steps from its version to 3
\* in order, each once, and the call returns True; an entry of version 4 is
\* returned as it was.
C17_MigratesEveryEntry ==
    migResult.done =>
        /\ migResult.raised = None
        /\ migResult.returned
        /\ migEntry.version = 4
        /\ migResult.steps = [i \in 1..(4 - migResult.before.version) |->
                                 migResult.before.version + i - 1]
        /\ migResult.before.version = 4 => migEntry = migResult.before

\* ---------------------------------------------------------------- C18
\* A key has the same presence and value in two mappings.
SameAt(a, b, k) ==
    /\ (k \in DOMAIN a) <=> (k \in DOMAIN b)
    /\ k \in DOMAIN a => a[k] = b[k]

\* C18: an entry migrated to version 4 has as options[CONF_DEVICES] the
\* device list it had (data[CONF_DEVICES] of a version 2 or 3 entry, the
\* nested deviceid list of a version 1 entry), no CONF_DEVICES in its data,
\* username, password, country and continent as before, verify_ssl set to
\* True by the step from version 1 only, and client_device_id added only for
\* the username Bumper.
C18_MigrationKeepsSelection ==
    (migResult.done /\ migResult.raised = None /\ migResult.before.version < 4) =>
        LET old == migResult.before IN
        /\ migEntry.options =
              [devices |-> IF old.version = 1
                           THEN Get(Get(old.data, "deviceid", EmptyMap), "deviceid", <<>>)
                           ELSE old.data[CONF_DEVICES]]
        /\ CONF_DEVICES \notin DOMAIN migEntry.data
        /\ \A k \in {CONF_USERNAME, "password", CONF_COUNTRY, CONF_CONTINENT} :
              SameAt(migEntry.data, old.data, k)
        /\ IF old.version = 1 THEN migEntry.data[CONF_VERIFY_SSL] = TRUE
           ELSE SameAt(migEntry.data, old.data, CONF_VERIFY_SSL)
        /\ IF old.version <= 2 /\ old.data[CONF_USERNAME] = CONF_BUMPER
           THEN migEntry.data[CONF_CLIENT_DEVICE_ID] = get_bumper_device_id
           ELSE SameAt(migEntry.data, old.data, CONF_CLIENT_DEVICE_ID)

\* A version 1 entry of the user Bumper with a nested device list was
\* migrated.
C18_Witness ==
    /\ migResult.done
    /\ migResult.raised = None
    /\ migResult.before.version = 1
    /\ migResult.before.data[CONF_USERNAME] = CONF_BUMPER
    /\ migEntry.version = 4
    /\ migEntry.options = [devices |-> <<"n1">>]
    /\ CONF_CLIENT_DEVICE_ID \notin DOMAIN migResult.before.data

\* ------------------------------------------------------------ config flow
CONF_MODE == "mode"

CONF_MODE_CLOUD == "Cloud (recommended)"

CONF_MODE_BUMPER == "Bumper"

\* const.py BUMPER_CONFIGURATION, with the client device id that
\* async_step_user_advanced adds.
BumperConfig ==
    [continent |-> "eu", country |-> "it", password |-> "Bumper", username |-> "Bumper",
     verify_ssl |-> FALSE, client_device_id |-> "bumper_id"]

\* What the user may type into the user form.
UserInputs ==
    [username : {"u1", "u2"}, password : {"pw"}, country : {"it", "ita", "i"},
     continent : {"eu", "e"}]

\* What the user may submit in the user_advanced form.
AdvancedInputs == {[mode |-> CONF_MODE_CLOUD], [mode |-> CONF_MODE_BUMPER]}

\* What api_client.get_devices() may do: return a list of devices or raise
\* (exceptions derived from Exception).
RetrievalOutcomes ==
    {[kind |-> k, devices |-> <<>>] : k \in {"ClientError", "InvalidAuthenticationError", "Exception"}}
    \cup {[kind |-> "ok", devices |-> l] : l \in InjSeqs(ApiDeviceUniverse, MaxApiLen)}

\* A config entry Home Assistant already holds.
ExistingEntry ==
    [data |-> [username |-> "u1", password |-> "old", country |-> "it", continent |-> "eu"],
     options |-> [devices |-> <<"n1">>], reloads |-> 0]

\* Another config entry of the integration, of another account.
OtherEntry ==
    [data |-> [username |-> "u2", password |-> "old2", country |-> "de", continent |-> "eu"],
     options |-> [devices |-> <<"n2">>], reloads |-> 0]

\* DeebotConfigFlow.__init__, with the flow's show_advanced_options.
NewFlow(advanced) ==
    [_data |-> EmptyMap, _devices |-> <<>>, _mode |-> None, _entry |-> 0,
     show_advanced_options |-> advanced, step |-> None]

\* self.async_show_form(step_id=..., data_schema=..., errors=...); defaults
\* are the default values of the schema's fields.
FormResult(step_id, defaults, errors) ==
    [type |-> "form", step_id |-> step_id, errors |-> errors, reason |-> None,
     title |-> None, data |-> EmptyMap, options |-> EmptyMap, defaults |-> defaults]

\* The defaults of the user form's schema: data.get(key, vol.UNDEFINED) for
\* username, country and continent; the password field has none.
UserFormDefaults(data) ==
    [k \in DOMAIN data \cap {CONF_USERNAME, CONF_COUNTRY, CONF_CONTINENT} |-> data[k]]

\* self.async_abort(reason=...)
AbortResult(reason) ==
    [type |-> "abort", step_id |-> None, errors |-> EmptyMap, reason |-> reason,
     title |-> None, data |-> EmptyMap, options |-> EmptyMap, defaults |-> EmptyMap]

\* self.async_create_entry(title=..., data=..., options=...)
CreateEntryResult(title, data, options) ==
    [type |-> "create_entry", step_id |-> None, errors |-> EmptyMap, reason |-> None,
     title |-> title, data |-> data, options |-> options, defaults |-> EmptyMap]

\* _retrieve_devices: the devices of the API answer that are DeviceInfo.
retrieve_devices(outcome) == SelectSeq(outcome.devices, LAMBDA d : d.cls = "DeviceInfo")

\* A bug: only the country is validated.
ValidationErrors_country_only(data) ==
    IF Len(data[CONF_COUNTRY]) # 2 THEN [country |-> "invalid_country"] ELSE EmptyMap

\* async_step_user: the errors of the length checks on country and continent.
ValidationErrors(data) ==
    Merge(IF Len(data[CONF_COUNTRY]) # 2 THEN [country |-> "invalid_country"] ELSE EmptyMap,
          IF Len(data[CONF_CONTINENT]) # 2 THEN [continent |-> "invalid_continent"] ELSE EmptyMap)

\* A bug: every exception of the retrieval is reported as unknown.
user_step_except_all_unknown(kind) == "unknown"

\* async_step_user: the except clauses around _retrieve_devices.
user_step_except(kind) ==
    CASE kind = "ClientError" -> "cannot_connect"
      [] kind = "InvalidAuthenticationError" -> "invalid_auth"
      [] OTHER -> "unknown"

\* self._async_abort_entries_match({CONF_USERNAME: username}): whether an
\* entry of the integration has this username.
EntriesMatch(entries, username) ==
    \E i \in 1..Len(entries) : Get(entries[i].data, CONF_USERNAME, None) = username

\* async_step_options; given is user_input is not None.
async_step_options(fl, given, user_input) ==
    IF given /\ Len(user_input[CONF_DEVICES]) >= 1
    THEN [flow |-> fl,
          result |-> CreateEntryResult(fl._data[CONF_USERNAME], fl._data, user_input)]
    ELSE [flow |-> fl,
          result |-> FormResult("options", EmptyMap,
                         IF given THEN [devices |-> "select_robots"] ELSE EmptyMap)]

\* async_step_user; given is user_input is not None.  The result holds the
\* flow's fields, the FlowResult, the config entries and the retrieval made.
async_step_user(fl, given, user_input, outcome, entries) ==
    LET data == IF given THEN user_input ELSE EmptyMap
        invalid == IF given THEN ValidationErrors(data) ELSE EmptyMap
        attempted == given /\ invalid = EmptyMap
        errors == IF attempted /\ outcome.kind # "ok"
                  THEN Merge(invalid, [base |-> user_step_except(outcome.kind)])
                  ELSE invalid
        found == IF attempted /\ outcome.kind = "ok" THEN retrieve_devices(outcome) ELSE fl._devices
        fl1 == [fl EXCEPT !._devices = found]
        retrieved == IF attempted
                     THEN <<[data |-> data, outcome |-> outcome.kind, devices |-> found]>>
                     ELSE <<>>
    IN IF given /\ errors = EmptyMap
       THEN IF fl._entry # 0
            THEN [flow |-> fl1, result |-> AbortResult("reauth_successful"),
                  entries |-> [entries EXCEPT ![fl._entry].data = data,
                                              ![fl._entry].reloads = @ + 1],
                  retrieved |-> retrieved]
            ELSE IF EntriesMatch(entries, user_input[CONF_USERNAME])
            THEN [flow |-> fl1, result |-> AbortResult("already_configured"),
                  entries |-> entries, retrieved |-> retrieved]
            ELSE IF Len(found) = 0
            THEN [flow |-> fl1, result |-> AbortResult("no_supported_devices_found"),
                  entries |-> entries, retrieved |-> retrieved]
            ELSE LET fl2 == [fl1 EXCEPT !._data = Merge(fl._data, data)]
                     next == async_step_options(fl2, FALSE, EmptyMap)
                 IN [flow |-> next.flow, result |-> next.result,
                     entries |-> entries, retrieved |-> retrieved]
       ELSE IF fl._entry = 0 /\ fl.show_advanced_options /\ fl._mode = None
            THEN [flow |-> fl1, result |-> FormResult("user_advanced", EmptyMap, EmptyMap),
                  entries |-> entries, retrieved |-> retrieved]
            ELSE [flow |-> fl1,
                  result |-> FormResult("user",
                                 UserFormDefaults(IF fl._entry # 0
                                                  THEN Merge(data, entries[fl._entry].data)
                                                  ELSE data),
                                 errors),
                  entries |-> entries, retrieved |-> retrieved]

\* async_step_user_advanced with user input.
async_step_user_advanced(fl, user_input, outcome, entries) ==
    LET fl1 == [fl EXCEPT !._mode = Get(user_input, CONF_MODE, CONF_MODE_CLOUD)]
    IN IF fl1._mode = CONF_MODE_BUMPER
       THEN async_step_user(fl1, TRUE, BumperConfig, outcome, entries)
       ELSE async_step_user(fl1, FALSE, EmptyMap, outcome, entries)

\* A bug: the entry of the context is not kept.
async_step_reauth_forgets_entry(fl, entry, outcome, entries) ==
    async_step_user(fl, TRUE, entries[entry].data, outcome, entries)

\* async_step_reauth: the entry of the context, then the user step with the
\* entry's data.
async_step_reauth(fl, entry, outcome, entries) ==
    async_step_user([fl EXCEPT !._entry = entry], TRUE, entries[entry].data, outcome, entries)

\* Home Assistant's flow manager takes the result of a step: a form keeps
\* the flow on its step, an abort ends it, a created entry is added to the
\* config entries.  handler and user_input record the step that ran.
FlowStep(r, handler, user_input) ==
    /\ flow' = IF r.result.type = "form"
               THEN [r.flow EXCEPT !.step = r.result.step_id]
               ELSE [step |-> None]
    /\ flowResult' = r.result @@ [handler |-> handler, user_input |-> user_input,
                                  retrieved |-> r.retrieved # <<>>]
    /\ configEntries' = IF r.result.type = "create_entry"
                        THEN Append(r.entries, [data |-> r.result.data,
                                                options |-> r.result.options, reloads |-> 0])
                        ELSE r.entries
    /\ retrievals' = IF r.retrieved = <<>> THEN retrievals
                     ELSE [count |-> retrievals.count + 1, last |-> r.retrieved[1]]
    /\ nSubmits' = nSubmits + 1
    /\ UNCHANGED <<ctlVars, regVars, entVars, migVars>>

\* The user starts a flow: async_step_user without input.
flow_init_user ==
    /\ flow.step = None
    /\ nSubmits < MaxSubmits
    /\ \E advanced \in BOOLEAN :
          FlowStep(async_step_user(NewFlow(advanced), FALSE, EmptyMap,
                                   [kind |-> "ok", devices |-> <<>>], configEntries),
                   "user", EmptyMap)

\* Home Assistant starts a re-authentication flow for an entry.
flow_init_reauth ==
    /\ flow.step = None
    /\ nSubmits < MaxSubmits
    /\ \E entry \in 1..Len(configEntries), outcome \in RetrievalOutcomes :
          FlowStep(async_step_reauth(NewFlow(FALSE), entry, outcome, configEntries),
                   "reauth", configEntries[entry].data)

\* The user submits the user form.
submit_user ==
    /\ flow.step = "user"
    /\ nSubmits < MaxSubmits
    /\ \E user_input \in UserInputs, outcome \in RetrievalOutcomes :
          FlowStep(async_step_user(flow, TRUE, user_input, outcome, configEntries),
                   "user", user_input)

\* The user submits the user_advanced form.
submit_user_advanced ==
    /\ flow.step = "user_advanced"
    /\ nSubmits < MaxSubmits
    /\ \E user_input \in AdvancedInputs, outcome \in RetrievalOutcomes :
          FlowStep(async_step_user_advanced(flow, user_input, outcome, configEntries),
                   "user_advanced", user_input)

\* The user submits the options form: a selection among the devices offered.
submit_options ==
    /\ flow.step = "options"
    /\ nSubmits < MaxSubmits
    /\ \E selection \in InjSeqs({d.name : d \in Range(flow._devices)}, MaxApiLen) :
          LET r == async_step_options(flow, TRUE, [devices |-> selection])
          IN FlowStep([flow |-> r.flow, result |-> r.result, entries |-> configEntries,
                       retrieved |-> <<>>],
                      "options", [devices |-> selection])

FlowInit ==
    /\ flow = [step |-> None]
    /\ flowResult = [type |-> None]
    /\ configEntries \in {<<>>, <<ExistingEntry>>, <<ExistingEntry, OtherEntry>>}
    /\ retrievals = [count |-> 0]
    /\ nSubmits = 0
    /\ CtlFixed /\ RegFixed /\ EntFixed /\ MigFixed

FlowNext ==
    \/ flow_init_user
    \/ flow_init_reauth
    \/ submit_user
    \/ submit_user_advanced
    \/ submit_options

SpecFlow == FlowInit /\ [][FlowNext]_vars

\* ----------------------------------------------------------- options flow
\* A config entry with its title: async_step_options creates the entry with
\* its username as title.
WithTitle(entry) == entry @@ [title |-> entry.data[CONF_USERNAME]]

\* DeebotOptionsFlowHandler.__init__ for the entry at this position.
\* _devices = None is the empty list here: before its assignment the only
\* read of _devices is `not self._devices`, true of both.
NewOptionsFlow(entry) ==
    [_config_entry |-> entry, _devices |-> <<>>, step |-> None]

\* The defaults of the options form's schema: defaults.get(CONF_DEVICES).
OptionsFormDefaults(defaults) ==
    [k \in DOMAIN defaults \cap {CONF_DEVICES} |-> defaults[k]]

\* async_step_init: the except clauses around _retrieve_devices.
init_step_except(kind) ==
    CASE kind = "ClientError" -> "cannot_connect"
      [] kind = "InvalidAuthenticationError" -> "invalid_auth"
      [] OTHER -> "unknown_get_devices"

\* A bug: an empty selection counts as a selection.
SelectionErrors_accepts_empty(user_input) ==
    IF CONF_DEVICES \notin DOMAIN user_input THEN [base |-> "unknown"] ELSE EmptyMap

\* async_step_init: the errors of a submission; a missing CONF_DEVICES key
\* is a KeyError, which the except clause reports as unknown.
SelectionErrors(user_input) ==
    IF CONF_DEVICES \notin DOMAIN user_input THEN [base |-> "unknown"]
    ELSE IF Len(user_input[CONF_DEVICES]) < 1 THEN [devices |-> "select_robots"]
    ELSE EmptyMap

\* DeebotOptionsFlowHandler.async_step_init; given is user_input is not
\* None, outcome is what get_devices does if it is called.
async_step_init(fl, given, user_input, outcome, entries) ==
    LET entry == entries[fl._config_entry]
        errors == IF given THEN SelectionErrors(user_input) ELSE EmptyMap
        defaults == IF given THEN user_input ELSE entry.options
        attempted == Len(fl._devices) = 0
        found == IF attempted /\ outcome.kind = "ok" THEN retrieve_devices(outcome)
                 ELSE fl._devices
        fl1 == [fl EXCEPT !._devices = found]
        retrieved == IF attempted
                     THEN <<[data |-> entry.data, outcome |-> outcome.kind, devices |-> found]>>
                     ELSE <<>>
    IN IF given /\ errors = EmptyMap
       THEN [flow |-> fl, result |-> CreateEntryResult(entry.title, user_input, EmptyMap),
             retrieved |-> <<>>]
       ELSE IF attempted /\ outcome.kind # "ok"
       THEN [flow |-> fl, result |-> AbortResult(init_step_except(outcome.kind)),
             retrieved |-> retrieved]
       ELSE IF attempted /\ Len(found) = 0
       THEN [flow |-> fl1, result |-> AbortResult("no_supported_devices_found"),
             retrieved |-> retrieved]
       ELSE [flow |-> fl1,
             result |-> FormResult("init", OptionsFormDefaults(defaults), errors),
             retrieved |-> retrieved]

\* Home Assistant's options flow manager takes the result of a step: a form
\* keeps the flow on its step, an abort ends it, a created entry becomes
\* the options of the flow's config entry.  handler, entry and user_input
\* record the step that ran.
OptionsFlowStep(r, entry, user_input) ==
    /\ flow' = IF r.result.type = "form"
               THEN [r.flow EXCEPT !.step = r.result.step_id]
               ELSE [step |-> None]
    /\ flowResult' = r.result @@ [handler |-> "init", entry |-> entry,
                                  user_input |-> user_input,
                                  retrieved |-> r.retrieved # <<>>]
    /\ configEntries' = IF r.result.type = "create_entry"
                        THEN [configEntries EXCEPT ![entry].options = r.result.data]
                        ELSE configEntries
    /\ retrievals' = IF r.retrieved = <<>> THEN retrievals
                     ELSE [count |-> retrievals.count + 1, last |-> r.retrieved[1]]
    /\ nSubmits' = nSubmits + 1
    /\ UNCHANGED <<ctlVars, regVars, entVars, migVars>>

\* The user opens the options of an entry: async_step_init without input.
options_flow_init ==
    /\ flow.step = None
    /\ nSubmits < MaxSubmits
    /\ \E entry \in 1..Len(configEntries), outcome \in RetrievalOutcomes :
          OptionsFlowStep(async_step_init(NewOptionsFlow(entry), FALSE, EmptyMap,
                                          outcome, configEntries),
                          entry, EmptyMap)

\* The user submits the options form: a selection among the devices offered.
submit_init ==
    /\ flow.step = "init"
    /\ nSubmits < MaxSubmits
    /\ \E selection \in InjSeqs({d.name : d \in Range(flow._devices)}, MaxApiLen),
          outcome \in RetrievalOutcomes :
          OptionsFlowStep(async_step_init(flow, TRUE, [devices |-> selection],
                                          outcome, configEntries),
                          flow._config_entry, [devices |-> selection])

OptionsInit ==
    /\ flow = [step |-> None]
    /\ flowResult = [type |-> None]
    /\ configEntries \in {<<WithTitle(ExistingEntry)>>,
                          <<WithTitle(ExistingEntry), WithTitle(OtherEntry)>>}
    /\ retrievals = [count |-> 0]
    /\ nSubmits = 0
    /\ CtlFixed /\ RegFixed /\ EntFixed /\ MigFixed

OptionsNext ==
    \/ options_flow_init
    \/ submit_init

SpecOptions == OptionsInit /\ [][OptionsNext]_vars

C8_RetrievalFailureIsFormError ==
    [][(retrievals'.count # retrievals.count /\ retrievals'.last.outcome # "ok") =>
          /\ flowResult'.type = "form"
          /\ flowResult'.step_id = "user"
          /\ flowResult'.errors =
                [base |-> IF retrievals'.last.outcome = "ClientError" THEN "cannot_connect"
                          ELSE IF retrievals'.last.outcome = "InvalidAuthenticationError"
                          THEN "invalid_auth" ELSE "unknown"]
          /\ flow'.step = "user"
          /\ configEntries' = configEntries]_vars

\* A retrieval failed with InvalidAuthenticationError and the user form
\* came back with invalid_auth.
C8_Witness ==
    /\ flowResult.type = "form"
    /\ flowResult.retrieved
    /\ retrievals.last.outcome = "InvalidAuthenticationError"
    /\ flowResult.errors = [base |-> "invalid_auth"]
    /\ flow.step = "user"

\* ---------------------------------------------------------------- C3
\* The calls of the running initialize named `call`, by position.
CallsOf(call) == {i \in 1..Len(callLog) : callLog[i].call = call}

\* C3: initialize retrieves the device list, then opens the MQTT channel,
\* then initializes devices: a device is initialized only after an MQTT
\* connect that returned, and the MQTT connect is attempted only after a
\* device retrieval that returned (never after one that failed).
C3_InitializeOrder ==
    caller = "initialize" =>
        /\ \A i \in CallsOf("bot.initialize") :
              \E j \in CallsOf("mqtt.connect") : j < i /\ callLog[j].outcome = "ok"
        /\ \A i \in CallsOf("mqtt.connect") :
              /\ \E j \in CallsOf("api_client.get_devices") : j < i /\ callLog[j].outcome = "ok"
              /\ \A j \in CallsOf("api_client.get_devices") : callLog[j].outcome = "ok"
        /\ \A i \in CallsOf("api_client.get_devices") :
              \A j \in CallsOf("mqtt.connect") \cup CallsOf("bot.initialize") : i < j

\* A device has been initialized by the running initialize.
C3_Witness ==
    /\ caller = "initialize"
    /\ \E i \in CallsOf("bot.initialize") : callLog[i].outcome = "ok"

\* ---------------------------------------------------------------- C4
\* The configured CONF_DEVICES list, [] when the key is absent.
ConfiguredDevices ==
    IF CONF_DEVICES \in DOMAIN entryOptions THEN entryOptions[CONF_DEVICES] ELSE <<>>

\* The devices of the API's list that are DeviceInfo and whose name is
\* configured, in the API's order.
ExpectedDevices ==
    SelectSeq(apiDevices, LAMBDA d :
        d.cls = "DeviceInfo" /\ \E k \in 1..Len(ConfiguredDevices) : ConfiguredDevices[k] = d.name)

\* C4: after a successful initialize on a fresh controller, the controller
\* holds exactly the non-legacy devices of the API's list whose name is in
\* CONF_DEVICES, each once and in API order; with CONF_DEVICES absent or
\* empty no device is created or initialized.
C4_DevicesAreTheSelectedOnes ==
    \A e \in EntryIds :
        entryState[e] = "loaded" =>
            LET bots == ctl[e]._devices
            IN /\ [i \in 1..Len(bots) |-> bots[i].device_info] = ExpectedDevices
               /\ \A i, j \in 1..Len(bots) :
                     i # j => bots[i].device_info.did # bots[j].device_info.did
               /\ ConfiguredDevices = <<>> =>
                     bots = <<>> /\ (caller = "initialize" => CallsOf("bot.initialize") = {})

\* A loaded entry with two devices, held in the API's order, which is not
\* the order of the selection.
C4_Witness ==
    \E e \in EntryIds :
        /\ entryState[e] = "loaded"
        /\ Len(ctl[e]._devices) = 2
        /\ ctl[e]._devices[1].device_info.name = ConfiguredDevices[2]

\* ---------------------------------------------------------------- C5
\* The entities a platform added for an entry's device.
EntitiesOf(e, platform, did) ==
    IF platform \in DOMAIN platformResult[e]
    THEN {x \in UNION {Range(call) : call \in Range(platformResult[e][platform].add_calls)} :
             x.did = did}
    ELSE {}

\* C5 (as claimed): after a successful setup every device the stored object
\* holds has entities on each forwarded platform, and exactly one vacuum
\* entity.
C5_EveryDeviceOnEveryPlatform ==
    \A e \in EntryIds :
        entryState[e] = "loaded" =>
            \A i \in 1..Len(ctl[e]._devices) :
                LET did == ctl[e]._devices[i].device_info.did
                IN /\ \A p \in Range(PLATFORMS) : EntitiesOf(e, p, did) # {}
                   /\ Cardinality(EntitiesOf(e, "vacuum", did)) = 1

\* ---------------------------------------------------------------- C9
\* C9 (as claimed): a diagnostics call gives an output in which the entry's
\* username, password, device list and title are redacted, and which has a
\* "device" section only when an identifier matches a device of the entry.
C9_DiagnosticsRedacted ==
    diagResult # NoDiagnostics =>
        /\ diagResult.result.raised = None
        /\ LET diag == diagResult.result.diag
           IN /\ "config" \in DOMAIN diag
              /\ diag.config.title = REDACTED
              /\ diag.config.data.username = REDACTED
              /\ diag.config.data.password = REDACTED
              /\ \A k \in DOMAIN diag.config.options : diag.config.options[k] = REDACTED
              /\ "device" \in DOMAIN diag =>
                    \E i \in 1..Len(ctl[diagResult.entry]._devices) :
                        \E identifier \in diagResult.identifiers :
                            ctl[diagResult.entry]._devices[i].device_info.did = identifier[2]

\* ---------------------------------------------------------------- C10
\* The entries that hass.data[DOMAIN] has a key for.
StoredEntries == IF DOMAIN_KEY \in DOMAIN hassData THEN DOMAIN hassData[DOMAIN_KEY] ELSE {}

\* The states of an entry whose async_setup_entry returned True.
SetUpStates == {"loaded", "unload_in_progress", "unload_returned_false", "unload_raised"}

\* C10: a controller is stored and the entry forwarded only after
\* initialize completed: on an unsupported version no controller is created,
\* and an entry whose initialize is running or raised has no key in
\* hass.data, no forwarded platform and no update listener; the DOMAIN key
\* exists only with a stored entry.
C10_StoredOnlyAfterInitialize ==
    /\ ~is_ha_supported => ctl = EmptyMap /\ hassData = EmptyMap
    /\ DOMAIN_KEY \in DOMAIN hassData => StoredEntries # {}
    /\ \A e \in EntryIds :
          (e \in StoredEntries \/ forwarded[e] # {} \/ updateListener[e]) =>
              entryState[e] \in SetUpStates

\* One entry is loaded and the setup of the other raised.
C10_Witness ==
    /\ entryState["e1"] = "loaded"
    /\ entryState["e2"] \in {"ConfigEntryNotReady", "ConfigEntryAuthFailed"}
    /\ StoredEntries = {"e1"}

\* ---------------------------------------------------------------- C11
\* The controller holds an open MQTT connection and no torn-down device.
ControllerLive(c) ==
    /\ c._mqtt = "connected"
    /\ \A i \in 1..Len(c._devices) : c._devices[i].state = "initialized"

\* C11: async_unload_entry tears the controller down and removes it from
\* hass.data only when every platform unloaded: the teardown runs only with
\* no platform left forwarded, and after an unload that returned False the
\* controller is still live, still stored under the entry's id, and the
\* deprecation issue is still there.
C11_UnloadOnlyWhenPlatformsUnloaded ==
    \A e \in EntryIds :
        /\ entryState[e] \in {"unload_in_progress", "unload_raised"} => forwarded[e] = {}
        /\ entryState[e] = "unload_returned_false" =>
              /\ forwarded[e] # {}
              /\ e \in StoredEntries
              /\ ControllerLive(ctl[hassData[DOMAIN_KEY][e]])
              /\ issue = (haVersion = "2024.2")

\* An unload of an entry with a device returned False.
C11_Witness ==
    \E e \in EntryIds :
        /\ entryState[e] = "unload_returned_false"
        /\ Len(ctl[e]._devices) >= 1
        /\ issue

\* ---------------------------------------------------------------- C12
\* C12: hass.data[DOMAIN] exists exactly when an entry is set up, its keys
\* are the ids of the entries that are set up (it is never present and
\* empty), and the deprecation issue is deleted only by the unload that
\* removes the last stored entry.
C12_DomainKeyIffLoaded ==
    /\ [](/\ StoredEntries = {e \in EntryIds : entryState[e] \in SetUpStates}
          /\ (DOMAIN_KEY \in DOMAIN hassData) <=> (\E e \in EntryIds : entryState[e] \in SetUpStates))
    /\ [][(issue /\ ~issue') =>
             /\ pc = "unload_finish"
             /\ StoredEntries = {pcEntry}
             /\ StoredEntries' = {}
             /\ DOMAIN_KEY \notin DOMAIN hassData']_vars

\* Of two loaded entries one was unloaded: the other is the only key, and
\* the issue is still there.
C12_Witness ==
    /\ entryState["e1"] = "not_loaded"
    /\ "e1" \in DOMAIN ctl
    /\ ctl["e1"]._authenticator = "torn_down"
    /\ ctl["e1"]._mqtt = "disconnected"
    /\ Len(ctl["e1"]._devices) >= 1
    /\ StoredEntries = {"e2"}
    /\ issue

C14_FailedInitializeReleases ==
    \A e \in EntryIds :
        entryState[e] \in {"ConfigEntryAuthFailed", "ConfigEntryNotReady"} =>
            /\ ctl[e]._mqtt # "connected"
            /\ \A i \in 1..Len(ctl[e]._devices) : ctl[e]._devices[i].state = "torn_down"

\* ---------------------------------------------------------------- C15
\* C15 (as claimed): between the initialize and teardown calls made on one
\* controller, its device list holds each device at most once and no device
\* object that has been torn down.
C15_RepeatedInitialize ==
    pc = "idle" =>
        LET bots == ctl[pcEntry]._devices
        IN /\ \A i, j \in 1..Len(bots) :
                 i # j => bots[i].device_info.did # bots[j].device_info.did
           /\ \A i \in 1..Len(bots) : bots[i].state # "torn_down"

\* ---------------------------------------------------------------- C16
\* The device ids of the bot.teardown calls logged, in order.
TornDownLog ==
    LET calls == SelectSeq(callLog, LAMBDA c : c.call = "bot.teardown" /\ c.outcome = "ok")
    IN [i \in 1..Len(calls) |-> calls[i].arg]

\* C16: teardown tears down every device first, then disconnects MQTT, then
\* tears the authenticator down; on a controller without devices it still
\* does the last two; when a device's teardown raises, neither the
\* disconnect nor the authenticator's teardown is reached.
C16_TeardownOrder ==
    LET T == CallsOf("bot.teardown")
        M == CallsOf("mqtt.disconnect")
        A == CallsOf("authenticator.teardown")
        bots == ctl[pcEntry]._devices
    IN /\ \A i \in T : \A j \in M \cup A : i < j
       /\ \A i \in M : \A j \in A : i < j /\ callLog[i].outcome = "ok"
       /\ (\E i \in T : callLog[i].outcome # "ok") => M \cup A = {}
       /\ (caller = "unload" /\ M # {}) =>
             TornDownLog = [i \in 1..Len(bots) |-> bots[i].device_info.did]
       /\ (caller = "unload" /\ pc = "unload_finish") =>
             /\ \A i \in 1..Len(bots) : bots[i].state = "torn_down"
             /\ \E i \in M : callLog[i].outcome = "ok"
             /\ \E i \in A : callLog[i].outcome = "ok"
       /\ (caller = "initialize" /\ pc = "get_devices") =>
             /\ T = {}
             /\ \E i \in M : callLog[i].outcome = "ok"
             /\ \E i \in A : callLog[i].outcome = "ok"

\* The teardown of a controller with two devices returned.
C16_Witness ==
    /\ caller = "unload"
    /\ pc = "unload_finish"
    /\ Len(TornDownLog) = 2

\* ---------------------------------------------------------------- C19
\* The entry a step of a re-authentication flow is about: the entry of the
\* context when the flow starts, the flow's entry afterwards.
ReauthEntry ==
    IF flowResult'.handler = "reauth"
    THEN CHOOSE e \in 1..Len(configEntries) : configEntries[e].data = flowResult'.user_input
    ELSE flow._entry

\* C19: no step of a re-authentication flow adds a config entry.  A step
\* whose retrieval with the submitted credentials succeeded replaces the
\* data of the flow's entry by the submitted data, schedules one reload of
\* it and aborts with reauth_successful, whether or not another entry has
\* the submitted username and whether or not a supported device was found.
\* Any other step shows the user form with the defaults of the existing
\* entry and leaves the entries as they are.
C19_ReauthUpdatesExistingEntry ==
    [][(/\ nSubmits' # nSubmits
        /\ \/ flowResult'.handler = "reauth"
           \/ flow.step = "user" /\ flow._entry # 0) =>
          LET e == ReauthEntry IN
          /\ Len(configEntries') = Len(configEntries)
          /\ flowResult'.type # "create_entry"
          /\ \A i \in 1..Len(configEntries) : i # e => configEntries'[i] = configEntries[i]
          /\ IF flowResult'.retrieved /\ retrievals'.last.outcome = "ok"
             THEN /\ flowResult'.type = "abort"
                  /\ flowResult'.reason = "reauth_successful"
                  /\ retrievals'.last.data = flowResult'.user_input
                  /\ configEntries'[e] = [configEntries[e] EXCEPT
                                             !.data = flowResult'.user_input,
                                             !.reloads = @ + 1]
                  /\ flow'.step = None
             ELSE /\ flowResult'.type = "form"
                  /\ flowResult'.step_id = "user"
                  /\ flowResult'.defaults = UserFormDefaults(configEntries[e].data)
                  /\ configEntries' = configEntries
                  /\ flow'.step = "user"
                  /\ flow'._entry = e]_vars

\* After a failed first attempt, a re-authentication with the username of
\* another entry, for an account without supported device, updated the
\* entry and scheduled its reload.
C19_Witness ==
    /\ flowResult.type = "abort"
    /\ flowResult.reason = "reauth_successful"
    /\ flowResult.handler = "user"
    /\ Len(configEntries) = 2
    /\ configEntries[1].data[CONF_USERNAME] = configEntries[2].data[CONF_USERNAME]
    /\ configEntries[1].data["password"] = "pw"
    /\ configEntries[1].reloads = 1
    /\ retrievals.last.devices = <<>>
    /\ retrievals.count = 2

\* ---------------------------------------------------------------- C20
\* C20: a step of the options flow changes nothing but the options of the
\* flow's entry, and those only on a submission selecting at least one
\* device, to exactly the submitted selection.  A submission with an empty
\* selection shows the form again with select_robots.  The first step of a
\* flow retrieves the devices with the entry's data and shows the form only
\* if a supported device was found; a failed retrieval aborts with
\* cannot_connect, invalid_auth or unknown_get_devices, an empty one with
\* no_supported_devices_found.  No later step of the flow retrieves again.
C20_OptionsSavedOnlyForSelection ==
    [][nSubmits' # nSubmits =>
          LET e == flowResult'.entry
              given == flow.step = "init"
              sel == flowResult'.user_input
          IN /\ Len(configEntries') = Len(configEntries)
             /\ \A i \in 1..Len(configEntries) :
                    i # e => configEntries'[i] = configEntries[i]
             /\ configEntries'[e].data = configEntries[e].data
             /\ IF given /\ Len(sel[CONF_DEVICES]) >= 1
                THEN /\ flowResult'.type = "create_entry"
                     /\ configEntries'[e].options = sel
                     /\ ~flowResult'.retrieved
                ELSE /\ configEntries' = configEntries
                     /\ flowResult'.type # "create_entry"
                     /\ given =>
                           /\ flowResult'.type = "form"
                           /\ flowResult'.step_id = "init"
                           /\ flowResult'.errors = [devices |-> "select_robots"]
                           /\ ~flowResult'.retrieved
                           /\ flow'._devices = flow._devices
                     /\ ~given =>
                           /\ flowResult'.retrieved
                           /\ retrievals'.last.data = configEntries[e].data
                           /\ IF retrievals'.last.outcome = "ok"
                                 /\ retrievals'.last.devices # <<>>
                              THEN /\ flowResult'.type = "form"
                                   /\ flowResult'.step_id = "init"
                                   /\ flowResult'.errors = EmptyMap
                                   /\ flow'._devices = retrievals'.last.devices
                              ELSE /\ flowResult'.type = "abort"
                                   /\ flowResult'.reason =
                                         CASE retrievals'.last.outcome = "ClientError"
                                                -> "cannot_connect"
                                           [] retrievals'.last.outcome =
                                                 "InvalidAuthenticationError"
                                                -> "invalid_auth"
                                           [] retrievals'.last.outcome = "Exception"
                                                -> "unknown_get_devices"
                                           [] OTHER -> "no_supported_devices_found"]_vars

\* After an empty selection was refused, the selection of another device
\* became the entry's options, with one retrieval in the flow.
C20_Witness ==
    /\ flowResult.type = "create_entry"
    /\ nSubmits = 3
    /\ retrievals.count = 1
    /\ configEntries[flowResult.entry].options = [devices |-> <<"n2">>]
    /\ flowResult.entry = 1
====
